---------------------------- MODULE Spec2Model ----------------------------
(***************************************************************************)
(* Document symbols of the editor (crates/editor/src/document_symbols.rs): *)
(* the per-buffer cache of language-server symbols, the debounced refresh  *)
(* task that fills it, the on-demand outline request, the ancestor filter  *)
(* at the cursor, and the highlighting of symbol names from buffer text.   *)
(*                                                                         *)
(* Offsets are 0-based byte offsets as in the source; sequences are        *)
(* 1-based, so the bytes s..e of a text are SubSeq(text, s + 1, e).        *)
(* Anchors are modelled by the offset they resolve to in the snapshot.     *)
(***************************************************************************)
EXTENDS Integers, Sequences, FiniteSets, TLC

(***************************************************************************)
(* Bounds of the model.                                                    *)
(***************************************************************************)
\* longest cached item list the ancestor filter is explored on
MaxLen == 4
\* refresh calls explored in one behaviour (caps the wave counter)
MaxWaves == 2
\* on-demand outline requests explored in one behaviour
MaxCalls == 1
\* longest buffer text highlights_from_buffer is explored on
MaxText == 3
\* longest symbol name highlights_from_buffer is explored on
MaxName == 4
\* most symbols in one server response
MaxSymbols == 5

\* the buffers of the editor's multibuffer
Buffers == {1, 2}
\* depths and offsets of the items the ancestor filter is explored on
Depths == 0 .. 2
Offsets == 0 .. 1

(***************************************************************************)
(* Option<T>                                                               *)
(***************************************************************************)
None == [some |-> FALSE]
Some(x) == [some |-> TRUE, val |-> x]

Min(a, b) == IF a <= b THEN a ELSE b
Max(a, b) == IF a >= b THEN a ELSE b

\* the least element of a non-empty set of numbers
Least(S) == CHOOSE p \in S : \A q \in S : p <= q

(***************************************************************************)
(* Text.  A string is a sequence of one-character strings.                 *)
(***************************************************************************)
IsWhitespace(c) == c = " "

\* a search that gives the rightmost occurrence
Find_rightmost(hay, needle) ==
  LET n == Len(needle)
      hits == {i \in 0 .. (Len(hay) - n) : SubSeq(hay, i + 1, i + n) = needle}
  IN  IF hits = {} THEN None
      ELSE Some(CHOOSE i \in hits : \A j \in hits : i >= j)

\* str::find: the offset of the leftmost occurrence of needle in hay
Find(hay, needle) ==
  LET n == Len(needle)
      hits == {i \in 0 .. (Len(hay) - n) : SubSeq(hay, i + 1, i + n) = needle}
  IN  IF hits = {} THEN None
      ELSE Some(CHOOSE i \in hits : \A j \in hits : i <= j)

\* hay[from..]
StrFrom(hay, from) == SubSeq(hay, from + 1, Len(hay))

RECURSIVE SplitFrom(_, _, _, _)
SplitFrom(s, i, cur, acc) ==
  IF i > Len(s)
  THEN IF cur = <<>> THEN acc ELSE Append(acc, cur)
  ELSE IF IsWhitespace(s[i])
       THEN SplitFrom(s, i + 1, <<>>, IF cur = <<>> THEN acc ELSE Append(acc, cur))
       ELSE SplitFrom(s, i + 1, Append(cur, s[i]), acc)

\* str::split_whitespace: the maximal runs of non-whitespace characters
split_whitespace(s) == SplitFrom(s, 1, <<>>, <<>>)

(***************************************************************************)
(* Buffer snapshot: the text, the syntax style of every byte (0: no style  *)
(* in the theme) and the offsets at which the chunk iterator splits a run  *)
(* of equal style (rope chunk boundaries).                                 *)
(***************************************************************************)
text_for_range(snapshot, s, e) ==
  SubSeq(snapshot.text, s + 1, Min(e, Len(snapshot.text)))

\* Anchor::to_offset: the anchor's offset, inside the snapshot
to_offset(anchor, snapshot) == Min(anchor, Len(snapshot.text))

\* the chunks from offset from on that start before e.  A chunk ends where
\* the style changes, at a split of the iterator or at the end of the text;
\* the last chunk is handed out whole, so it may reach beyond e (an
\* iterator that cuts it at e gives the same length after chunk_len)
RECURSIVE ChunksFrom(_, _, _, _)
ChunksFrom(snapshot, from, e, acc) ==
  IF from >= e THEN acc
  ELSE LET stops == {k \in (from + 1) .. Len(snapshot.text) :
                        \/ k = Len(snapshot.text)
                        \/ k \in snapshot.cuts
                        \/ snapshot.style[k + 1] # snapshot.style[from + 1]}
           stop == CHOOSE k \in stops : \A j \in stops : k <= j
       IN  ChunksFrom(snapshot, stop, e,
                      Append(acc, [len |-> stop - from,
                                   style |-> snapshot.style[from + 1]]))

\* BufferSnapshot::chunks(range, true): the chunks of the range, in order
chunks(snapshot, s, e) == ChunksFrom(snapshot, s, Min(e, Len(snapshot.text)), <<>>)


(***************************************************************************)
(* Highlights.  A highlight is a range of the item text with a style.      *)
(***************************************************************************)
\* a length that takes the chunk whole
chunk_len_whole(chunk, buffer_end, offset) == chunk.len

\* chunk.text.len().min(buffer_end - offset)
chunk_len(chunk, buffer_end, offset) == Min(chunk.len, buffer_end - offset)

RECURSIVE highlights_loop(_, _, _, _, _, _, _)
highlights_loop(cs, i, text_cursor, offset, buffer_end, acc, got_any) ==
  IF i > Len(cs)
  THEN IF got_any THEN Some(acc) ELSE None
  ELSE LET len == chunk_len(cs[i], buffer_end, offset)
           pushed == IF cs[i].style # 0
                     THEN Append(acc, [start |-> text_cursor,
                                       end |-> text_cursor + len,
                                       style |-> cs[i].style])
                     ELSE acc
           got == got_any \/ cs[i].style # 0
       IN  IF offset + len >= buffer_end
           THEN IF got THEN Some(pushed) ELSE None
           ELSE highlights_loop(cs, i + 1, text_cursor + len,
                                offset + len, buffer_end, pushed, got)

\* a projection that returns its highlights whether or not it pushed one
highlights_for_range_always_some(text_cursor_start, buffer_start, buffer_end, snapshot) ==
  LET styled == highlights_loop(chunks(snapshot, buffer_start, buffer_end), 1,
                                text_cursor_start, buffer_start, buffer_end, <<>>, FALSE)
  IN  IF styled.some THEN styled ELSE Some(<<>>)

\* the styles of the chunks of buffer_start..buffer_end, laid over the item
\* text from text_cursor_start on; None when no chunk has a style
highlights_for_range(text_cursor_start, buffer_start, buffer_end, snapshot) ==
  highlights_loop(chunks(snapshot, buffer_start, buffer_end), 1,
                  text_cursor_start, buffer_start, buffer_end, <<>>, FALSE)

\* the verbatim phase: Some(highlights) when the name is found in the window
\* around the selection start and a chunk of it carries a style
verbatim_highlights(name, name_offset_in_text, snapshot, range_start_offset, range_end_offset, selection_start_offset) ==
  LET search_start == Max(Max(selection_start_offset - Len(name), 0),
                          range_start_offset)
      search_end == Min(selection_start_offset + Len(name) * 2, range_end_offset)
  IN  IF search_start < search_end
      THEN LET buffer_text == text_for_range(snapshot, search_start, search_end)
               found_at == Find(buffer_text, name)
           IN  IF found_at.some
               THEN highlights_for_range(name_offset_in_text,
                                         search_start + found_at.val,
                                         search_start + found_at.val + Len(name),
                                         snapshot)
               ELSE None
      ELSE None

\* a cursor that goes back to the start of the symbol range after every word
buf_search_from_after_restarting(buf_search_from, found_in_buf, word) == 0

\* buf_search_from after a word: behind the word when it was found, where
\* it was when it was not
buf_search_from_after(buf_search_from, found_in_buf, word) ==
  IF found_in_buf.some
  THEN buf_search_from + found_in_buf.val + Len(word)
  ELSE buf_search_from

RECURSIVE word_loop(_, _, _, _, _, _, _, _, _, _)
word_loop(words, i, name, name_offset_in_text, snapshot, range_start_offset, buffer_text, buf_search_from, name_search_from, st) ==
  IF i > Len(words)
  THEN IF st.got_any THEN Some(st.highlights) ELSE None
  ELSE LET word == words[i]
           in_name == Find(StrFrom(name, name_search_from), word)
           name_word_start == IF in_name.some
                              THEN name_search_from + in_name.val
                              ELSE name_search_from
           found_in_buf == Find(StrFrom(buffer_text, buf_search_from), word)
           buf_word_start == range_start_offset + buf_search_from + found_in_buf.val
           word_highlights ==
             IF found_in_buf.some
             THEN highlights_for_range(name_offset_in_text + name_word_start,
                                       buf_word_start, buf_word_start + Len(word),
                                       snapshot)
             ELSE None
           st2 == IF word_highlights.some
                  THEN [got_any |-> TRUE,
                        highlights |-> st.highlights \o word_highlights.val]
                  ELSE st
           from2 == buf_search_from_after(buf_search_from, found_in_buf, word)
       IN  word_loop(words, i + 1, name, name_offset_in_text, snapshot,
                     range_start_offset, buffer_text, from2,
                     name_word_start + Len(word), st2)

\* the word fallback: every word of the name searched in order in the
\* symbol range, each found word highlighted at its offset in the name
word_highlights_of(name, name_offset_in_text, snapshot, range_start_offset, range_end_offset) ==
  word_loop(split_whitespace(name), 1, name, name_offset_in_text, snapshot,
            range_start_offset,
            text_for_range(snapshot, range_start_offset, range_end_offset),
            0, 0, [got_any |-> FALSE, highlights |-> <<>>])

highlights_from_buffer(name, name_offset_in_text, snapshot, range_start_offset, range_end_offset, selection_start_offset) ==
  IF name = <<>> THEN None
  ELSE LET result == verbatim_highlights(name, name_offset_in_text, snapshot,
                                         range_start_offset, range_end_offset,
                                         selection_start_offset)
       IN  IF result.some THEN result
           ELSE word_highlights_of(name, name_offset_in_text, snapshot,
                                   range_start_offset, range_end_offset)

\* the chunks(..) reads of the word fallback: one per word found in the
\* buffer text, in order
RECURSIVE word_reads(_, _, _, _, _)
word_reads(words, i, range_start_offset, buffer_text, buf_search_from) ==
  IF i > Len(words) THEN <<>>
  ELSE LET found_in_buf == Find(StrFrom(buffer_text, buf_search_from), words[i])
           buf_word_start == range_start_offset + buf_search_from + found_in_buf.val
       IN  IF found_in_buf.some
           THEN <<[fn |-> "chunks", s |-> buf_word_start, e |-> buf_word_start + Len(words[i])]>> \o
                word_reads(words, i + 1, range_start_offset, buffer_text,
                           buf_search_from_after(buf_search_from, found_in_buf, words[i]))
           ELSE word_reads(words, i + 1, range_start_offset, buffer_text,
                           buf_search_from_after(buf_search_from, found_in_buf, words[i]))

\* the reads of the snapshot after the test of the name: the window of the
\* verbatim phase when it is not empty, the chunks of the occurrence found
\* in it, and, unless the verbatim phase returned, the symbol range and the
\* chunks of every found word
reads_of_phases(name, name_offset_in_text, snapshot, range_start_offset, range_end_offset, selection_start_offset) ==
  LET search_start == Max(Max(selection_start_offset - Len(name), 0),
                          range_start_offset)
      search_end == Min(selection_start_offset + Len(name) * 2, range_end_offset)
      found_at == Find(text_for_range(snapshot, search_start, search_end), name)
      window == IF search_start < search_end
                THEN <<[fn |-> "text_for_range", s |-> search_start, e |-> search_end]>> \o
                     (IF found_at.some
                      THEN <<[fn |-> "chunks", s |-> search_start + found_at.val,
                              e |-> search_start + found_at.val + Len(name)]>>
                      ELSE <<>>)
                ELSE <<>>
  IN  IF verbatim_highlights(name, name_offset_in_text, snapshot, range_start_offset,
                             range_end_offset, selection_start_offset).some
      THEN window
      ELSE window \o
           <<[fn |-> "text_for_range", s |-> range_start_offset, e |-> range_end_offset]>> \o
           word_reads(split_whitespace(name), 1, range_start_offset,
                      text_for_range(snapshot, range_start_offset, range_end_offset), 0)

\* the reads of a version that has no early return for the empty name
snapshot_reads_unchecked(name, name_offset_in_text, snapshot, range_start_offset, range_end_offset, selection_start_offset) ==
  reads_of_phases(name, name_offset_in_text, snapshot, range_start_offset,
                  range_end_offset, selection_start_offset)

\* the reads of the snapshot highlights_from_buffer makes, in order: none
\* when the name is empty
snapshot_reads(name, name_offset_in_text, snapshot, range_start_offset, range_end_offset, selection_start_offset) ==
  IF name = <<>> THEN <<>>
  ELSE reads_of_phases(name, name_offset_in_text, snapshot, range_start_offset,
                       range_end_offset, selection_start_offset)

(***************************************************************************)
(* Outline items.  An OutlineItem<text::Anchor> of the cache is            *)
(*   [depth, start, end, sel, text, hl]                                    *)
(* with start..end its range, sel the start of source_range_for_text and   *)
(* hl its highlight_ranges.                                                *)
(***************************************************************************)
\* an item whose highlights are emptied when the locator finds none
highlight_item_clearing(item, snapshot) ==
  LET highlights == highlights_from_buffer(item.text, 0, snapshot,
                                           to_offset(item.start, snapshot),
                                           to_offset(item.end, snapshot),
                                           to_offset(item.sel, snapshot))
  IN  [item EXCEPT !.hl = IF highlights.some THEN highlights.val ELSE <<>>]

highlight_item(item, snapshot) ==
  LET highlights == highlights_from_buffer(item.text, 0, snapshot,
                                           to_offset(item.start, snapshot),
                                           to_offset(item.end, snapshot),
                                           to_offset(item.sel, snapshot))
  IN  IF highlights.some THEN [item EXCEPT !.hl = highlights.val] ELSE item

apply_syntax_highlights(items, snapshot) ==
  [i \in 1 .. Len(items) |-> highlight_item(items[i], snapshot)]

(***************************************************************************)
(* The ancestor filter.                                                    *)
(***************************************************************************)
\* a containment test that forgets the end of the range
contains_cursor_start_only(item, cursor_text_anchor) == item.start <= cursor_text_anchor

\* range.start <= cursor and range.end >= cursor, in anchor order
contains_cursor(item, cursor_text_anchor) ==
  item.start <= cursor_text_anchor /\ item.end >= cursor_text_anchor

\* Anchor::range_in_buffer: the item with its ranges placed in the excerpt
in_excerpt(excerpt_id, item) ==
  [excerpt |-> excerpt_id, depth |-> item.depth, start |-> item.start,
   end |-> item.end, sel |-> item.sel, text |-> item.text, hl |-> item.hl]

RECURSIVE select_items(_, _, _, _)
select_items(all_items, i, excerpt_id, cursor_text_anchor) ==
  IF i > Len(all_items) THEN <<>>
  ELSE LET rest == select_items(all_items, i + 1, excerpt_id, cursor_text_anchor)
       IN  IF contains_cursor(all_items[i], cursor_text_anchor)
           THEN <<in_excerpt(excerpt_id, all_items[i])>> \o rest
           ELSE rest

\* a closure that compares the depths the wrong way round
retain_keeps_reversed(prev_depth, item) == (~prev_depth.some) \/ item.depth < prev_depth.val

\* the closure of symbols.retain: keep the item when there is no previous
\* depth or its depth is greater; the item's depth becomes the previous depth
retain_keeps(prev_depth, item) == (~prev_depth.some) \/ item.depth > prev_depth.val

retain_next_prev(prev_depth, item, kept) == Some(item.depth)

RECURSIVE retain(_, _, _)
retain(symbols, i, prev_depth) ==
  IF i > Len(symbols) THEN <<>>
  ELSE LET kept == retain_keeps(prev_depth, symbols[i])
           rest == retain(symbols, i + 1,
                          retain_next_prev(prev_depth, symbols[i], kept))
       IN  IF kept THEN <<symbols[i]>> \o rest ELSE rest

(***************************************************************************)
(* The editor.                                                             *)
(***************************************************************************)
VARIABLES
  multibuffer,                  \* self.buffer: the ids of the open buffers
  document_symbols,             \* the document_symbols setting of each buffer
  project,                      \* self.project is Some
  mode_full,                    \* self.mode().is_full()
  lsp_document_symbols,         \* self.lsp_document_symbols
  refresh_document_symbols_task,\* the live refresh tasks (the field holds one)
  outline_symbols_at_cursor,    \* self.outline_symbols_at_cursor
  cursor,                       \* the newest selection head: [buf, off]
  at_cursor,                    \* what the last lsp_symbols_at_cursor call returned
  outline_task,                 \* the Task the last buffer_outline_items call returned
  requests,                     \* fetch_document_symbols calls made, per buffer
  events,                       \* DocumentSymbolsChanged events emitted
  waves,                        \* refresh tasks spawned so far
  entry_wave,                   \* the wave that wrote each cache entry (0: none)
  calls,                        \* buffer_outline_items calls made so far
  last,                         \* the last step: [op, buf, pre]
  included,                     \* refresh calls that spawned a task with the buffer
  highlight_call,               \* a call of highlights_from_buffer: arguments, result
  symbols_response,             \* a server response and the item list made of it
  settings_file,                \* a settings object and what migrate_one made of it
  items_call,                   \* a call of apply_syntax_highlights: items before, after
  docker_output,                \* a call of deserialize_json_output: Output, result
  audio_test_window,            \* the AudioTestWindow: [open, stop_playback]
  playbacks                     \* the playbacks started so far, each with its two threads

vars == <<multibuffer, document_symbols, project, mode_full, lsp_document_symbols, refresh_document_symbols_task, outline_symbols_at_cursor, cursor, at_cursor, outline_task, requests, events, waves, entry_wave, calls, last, included, highlight_call, symbols_response, settings_file, items_call, docker_output, audio_test_window, playbacks>>

\* the calls of the pure functions of the module, explored on their own
pure_calls == <<highlight_call, symbols_response, settings_file, items_call, docker_output, audio_test_window, playbacks>>

\* the functions of the editor and the audio test window apart from the one
\* a specification explores
elsewhere == <<items_call, docker_output, audio_test_window, playbacks>>

Idle == [phase |-> "idle"]

\* no call of the functions explored apart, no audio test window
ElsewhereAtRest ==
  /\ items_call = Idle
  /\ docker_output = Idle
  /\ audio_test_window = [open |-> FALSE, stop_playback |-> None]
  /\ playbacks = <<>>

\* no pure function is being explored
NoPureCall ==
  /\ highlight_call = Idle
  /\ symbols_response = Idle
  /\ settings_file = Idle
  /\ ElsewhereAtRest

\* a cache entry: absent, or present with its items
Absent == [present |-> FALSE, items |-> <<>>]
Present(items) == [present |-> TRUE, items |-> items]

Sym(depth, start, end, sel, text) ==
  [depth |-> depth, start |-> start, end |-> end, sel |-> sel, text |-> text, hl |-> <<>>]

\* the snapshot of every buffer: "fn m", keyword and function styles
snapshot_of(b) ==
  [text |-> <<"f", "n", " ", "m">>, style |-> <<1, 1, 0, 2>>, cuts |-> {}]

\* what the language server may answer for a buffer, as the project layer
\* hands it over: items without highlights
ServerResponses ==
  { <<>>,
    <<Sym(0, 0, 4, 0, <<"f", "n">>), Sym(1, 3, 4, 3, <<"m">>)>> }

\* buffer_snapshot.outline(Some(&syntax)).items: the tree-sitter outline
syntax_outline(b) ==
  <<[depth |-> 0, start |-> 0, end |-> 4, sel |-> 0,
     text |-> <<"f", "n", " ", "m">>,
     hl |-> <<[start |-> 0, end |-> 2, style |-> 1],
              [start |-> 3, end |-> 4, style |-> 2]>>]>>

\* what a fetch_document_symbols task resolves to: a Vec of items, whether
\* the request succeeded (ok) or failed; the Vec is all its awaiter gets
FetchOutcomes == [done : {TRUE}, ok : BOOLEAN, items : ServerResponses]

Pending == [done |-> FALSE, ok |-> FALSE, items |-> <<>>]

\* a setting that is read as enabled for every buffer
lsp_symbols_enabled_always(settings, b) == TRUE

lsp_symbols_enabled(settings, b) == settings[b]

\* a selector that does not read the setting
uses_lsp_document_symbols_ignoring_setting(open, settings, c) == c.buf \in open

uses_lsp_document_symbols(open, settings, c) ==
  IF c.buf \notin open THEN FALSE ELSE lsp_symbols_enabled(settings, c.buf)

\* a check that lets an empty entry through
cached_items_unchecked(cache, buffer_id) ==
  IF ~cache[buffer_id].present THEN None ELSE Some(cache[buffer_id].items)

\* the check of the cached list before filtering: None when the buffer has
\* no entry or an empty one
cached_items(cache, buffer_id) ==
  IF ~cache[buffer_id].present THEN None
  ELSE IF cache[buffer_id].items = <<>> THEN None
  ELSE Some(cache[buffer_id].items)

lsp_symbols_at_cursor(cache, open, c) ==
  IF c.buf \notin open THEN None
  ELSE LET all_items == cached_items(cache, c.buf)
       IN  IF ~all_items.some THEN None
           ELSE Some([buffer_id |-> c.buf,
                      symbols |-> retain(select_items(all_items.val, 1, c.buf, c.off), 1, None)])

\* Editor::refresh_outline_symbols_at_cursor: the cursor-relative outline,
\* from the cache when the buffer uses the server's symbols and from the
\* syntax outline otherwise
refresh_outline_symbols_at_cursor(cache, open, settings, c) ==
  IF uses_lsp_document_symbols(open, settings, c)
  THEN lsp_symbols_at_cursor(cache, open, c)
  ELSE IF c.buf \notin open THEN None
  ELSE Some([buffer_id |-> c.buf,
             symbols |-> retain(select_items(syntax_outline(c.buf), 1, c.buf, c.off), 1, None)])

\* a lookup that asks the server when the buffer has no entry
requests_after_lookup_fetching(reqs, cache, c) ==
  [b \in DOMAIN reqs |-> IF b = c.buf /\ ~cache[b].present THEN reqs[b] + 1 ELSE reqs[b]]

\* uses_lsp_document_symbols and lsp_symbols_at_cursor borrow the editor
\* immutably and call nothing of the project: the requests made are the
\* requests made before
requests_after_lookup(reqs, cache, c) == reqs

Step(op, buf, pre) == [op |-> op, buf |-> buf, pre |-> pre]

(***************************************************************************)
(* refresh_document_symbols                                                *)
(***************************************************************************)
\* the buffers behind the excerpts of the multibuffer, in excerpt order:
\* buffer 1 is shown in two excerpts
Excerpts == <<1, 2, 1>>

all_buffers(open) == SelectSeq(Excerpts, LAMBDA b : b \in open)

Range(s) == {s[i] : i \in 1 .. Len(s)}

Count(s, x) == Cardinality({i \in 1 .. Len(s) : s[i] = x})

\* a unique_by that lets every buffer through
unique_by_keep_all(buffers, i) == SubSeq(buffers, i, Len(buffers))

\* Itertools::unique_by on the buffer id: the first of each id is kept
RECURSIVE unique_by(_, _)
unique_by(buffers, i) ==
  IF i > Len(buffers) THEN <<>>
  ELSE IF \E j \in 1 .. (i - 1) : buffers[j] = buffers[i]
       THEN unique_by(buffers, i + 1)
       ELSE <<buffers[i]>> \o unique_by(buffers, i + 1)

matches_filter(for_buffer, id) == (~for_buffer.some) \/ for_buffer.val = id

buffers_to_query(for_buffer) ==
  unique_by(SelectSeq(all_buffers(multibuffer),
                      LAMBDA b : matches_filter(for_buffer, b)
                                   /\ lsp_symbols_enabled(document_symbols, b)), 1)

\* the tasks whose debounce timer is still running
debouncing(tasks) == {t \in tasks : t.phase = "debounce"}

\* the number of calls the newest debouncing task stands for, and the
\* requests made when the first of them was made
burst_of(tasks) ==
  IF debouncing(tasks) = {} THEN 0
  ELSE (CHOOSE t \in debouncing(tasks) : \A u \in debouncing(tasks) : u.wave <= t.wave).burst

base_of(tasks, reqs) ==
  IF debouncing(tasks) = {} THEN reqs
  ELSE (CHOOSE t \in debouncing(tasks) : \A u \in debouncing(tasks) : u.wave <= t.wave).base

\* a spawn that detaches the task the field held instead of dropping it
spawn_refresh_task_detached(tasks, new) == tasks \cup {new}

\* self.refresh_document_symbols_task = cx.spawn(..): the new task takes the
\* field, the task it held is dropped and never polled again
spawn_refresh_task(tasks, new) == {new}

\* an early return that resets the task field on its way out
tasks_after_early_return_cleared(tasks) == {}

\* the returns at lines 152, 155 and 173 come before the assignment to
\* self.refresh_document_symbols_task: the field keeps its task
tasks_after_early_return(tasks) == tasks

\* calls are explored until MaxWaves of them have spawned a task
refresh_document_symbols(for_buffer) ==
  /\ waves < MaxWaves
  /\ IF ~mode_full \/ ~project \/ buffers_to_query(for_buffer) = <<>>
     THEN /\ refresh_document_symbols_task' = tasks_after_early_return(refresh_document_symbols_task)
          /\ UNCHANGED <<waves, included>>
          /\ last' = Step("refresh_noop", 0, Absent)
     ELSE /\ refresh_document_symbols_task' =
               spawn_refresh_task(refresh_document_symbols_task,
                                  [wave |-> waves + 1, phase |-> "debounce", issued_open |-> {},
                                   buffers |-> buffers_to_query(for_buffer),
                                   burst |-> burst_of(refresh_document_symbols_task) + 1,
                                   base |-> base_of(refresh_document_symbols_task, requests),
                                   results |-> [b \in Range(buffers_to_query(for_buffer)) |-> Pending]])
          /\ waves' = waves + 1
          /\ included' = [b \in Buffers |-> included[b] + Count(buffers_to_query(for_buffer), b)]
          /\ last' = Step("other", 0, Absent)
  /\ UNCHANGED <<multibuffer, document_symbols, project, mode_full, lsp_document_symbols, outline_symbols_at_cursor, cursor, at_cursor, outline_task, requests, events, entry_wave, calls, pure_calls>>

\* an issuance that asks the setting of each buffer again
fetches_issued_reselected(t) ==
  SelectSeq(t.buffers, LAMBDA b : lsp_symbols_enabled(document_symbols, b))

\* buffers_to_query, moved into the future when it was spawned, is mapped
\* to fetch_document_symbols calls as it is
fetches_issued(t) == t.buffers

\* the debounce timer fires: one fetch_document_symbols call per buffer
debounce_elapsed(t) ==
  /\ t \in refresh_document_symbols_task
  /\ t.phase = "debounce"
  /\ refresh_document_symbols_task' =
       (refresh_document_symbols_task \ {t}) \cup {[t EXCEPT !.phase = "inflight", !.issued_open = multibuffer]}
  /\ requests' = [b \in Buffers |-> requests[b] + Count(fetches_issued(t), b)]
  /\ last' = Step("other", 0, Absent)
  /\ UNCHANGED <<multibuffer, document_symbols, project, mode_full, lsp_document_symbols, outline_symbols_at_cursor, cursor, at_cursor, outline_task, events, waves, entry_wave, calls, included, pure_calls>>

\* one fetch of the wave resolves
fetch_resolves(t, b, outcome) ==
  /\ t \in refresh_document_symbols_task
  /\ t.phase = "inflight"
  /\ b \in DOMAIN t.results
  /\ ~t.results[b].done
  /\ refresh_document_symbols_task' =
       (refresh_document_symbols_task \ {t}) \cup {[t EXCEPT !.results[b] = outcome]}
  /\ last' = Step("other", 0, Absent)
  /\ UNCHANGED <<multibuffer, document_symbols, project, mode_full, lsp_document_symbols, outline_symbols_at_cursor, cursor, at_cursor, outline_task, requests, events, waves, entry_wave, calls, included, pure_calls>>

\* the results of the wave with the highlights of the buffers still open
highlighted_results(t) ==
  [b \in DOMAIN t.results |->
     IF b \in multibuffer
     THEN apply_syntax_highlights(t.results[b].items, snapshot_of(b))
     ELSE t.results[b].items]

\* an extend that appends the new items to the items of the entry
extend_appending(cache, results) ==
  [b \in Buffers |-> IF b \in DOMAIN results THEN Present(cache[b].items \o results[b]) ELSE cache[b]]

\* editor.lsp_document_symbols.extend(highlighted_results)
extend(cache, results) ==
  [b \in Buffers |-> IF b \in DOMAIN results THEN Present(results[b]) ELSE cache[b]]

\* a join that is ready with the first result
join_any(t) == t.phase = "inflight" /\ \E b \in DOMAIN t.results : t.results[b].done

\* join_all(tasks).await is ready: every fetch of the wave has resolved
join_all(t) == t.phase = "inflight" /\ \A b \in DOMAIN t.results : t.results[b].done

\* an update that refreshes the outline at the cursor before it extends
\* the cache
wave_update_outline_first(t) ==
  [cache |-> extend(lsp_document_symbols, highlighted_results(t)),
   outline |-> refresh_outline_symbols_at_cursor(lsp_document_symbols, multibuffer, document_symbols, cursor),
   emitted |-> 1]

\* the closure of editor.update at the end of the task: the cache is
\* extended, then the outline at the cursor is refreshed from the extended
\* cache, then one DocumentSymbolsChanged is emitted
wave_update(t) ==
  LET written == extend(lsp_document_symbols, highlighted_results(t))
  IN  [cache |-> written,
       outline |-> refresh_outline_symbols_at_cursor(written, multibuffer, document_symbols, cursor),
       emitted |-> 1]

\* a task that starts over when one of its fetches has failed
tasks_after_completion_retrying(tasks, t) ==
  IF \E b \in DOMAIN t.results : ~t.results[b].ok
  THEN (tasks \ {t}) \cup {[t EXCEPT !.phase = "debounce",
                                     !.results = [b \in DOMAIN t.results |-> Pending]]}
  ELSE tasks \ {t}

\* the spawned future returns after the update of the editor, whatever the
\* fetches gave: the task is over
tasks_after_completion(tasks, t) == tasks \ {t}

\* join_all has every result: the cache is extended, the outline at the
\* cursor refreshed and DocumentSymbolsChanged emitted
wave_completes(t) ==
  /\ t \in refresh_document_symbols_task
  /\ join_all(t)
  /\ lsp_document_symbols' = wave_update(t).cache
  /\ entry_wave' = [b \in Buffers |-> IF b \in DOMAIN t.results THEN t.wave ELSE entry_wave[b]]
  /\ outline_symbols_at_cursor' = wave_update(t).outline
  /\ events' = events + wave_update(t).emitted
  /\ refresh_document_symbols_task' = tasks_after_completion(refresh_document_symbols_task, t)
  /\ last' = [op |-> "wave_completes", buf |-> 0, pre |-> Absent, wave |-> t,
              before |-> lsp_document_symbols]
  /\ UNCHANGED <<multibuffer, document_symbols, project, mode_full, cursor, at_cursor, outline_task, requests, waves, calls, included, pure_calls>>

(***************************************************************************)
(* buffer_outline_items                                                    *)
(***************************************************************************)
Ready(b, items) == [state |-> "ready", buf |-> b, items |-> items]
Fetching(b) == [state |-> "fetching", buf |-> b, items |-> <<>>]
Outlining(b) == [state |-> "outlining", buf |-> b, items |-> <<>>]
NoTask == [state |-> "none", buf |-> 0, items |-> <<>>]

\* an answer from the cache for every present entry, the empty one included
ready_items_when_present(cache, buffer_id) ==
  IF cache[buffer_id].present THEN Some(cache[buffer_id].items) ELSE None

\* the cached items buffer_outline_items answers with at once
ready_items(cache, buffer_id) ==
  IF cache[buffer_id].present /\ cache[buffer_id].items # <<>>
  THEN Some(cache[buffer_id].items)
  ELSE None

\* a buffer_outline_items that never asks the server itself
buffer_outline_items_task_cache_only(buffer_id) ==
  IF buffer_id \notin multibuffer THEN Ready(buffer_id, <<>>)
  ELSE IF lsp_symbols_enabled(document_symbols, buffer_id)
  THEN Ready(buffer_id, lsp_document_symbols[buffer_id].items)
  ELSE Outlining(buffer_id)

\* the Task buffer_outline_items returns
buffer_outline_items_task(buffer_id) ==
  IF buffer_id \notin multibuffer THEN Ready(buffer_id, <<>>)
  ELSE IF lsp_symbols_enabled(document_symbols, buffer_id)
  THEN IF ready_items(lsp_document_symbols, buffer_id).some
       THEN Ready(buffer_id, ready_items(lsp_document_symbols, buffer_id).val)
       ELSE IF project THEN Fetching(buffer_id)
       ELSE Ready(buffer_id, <<>>)
  ELSE Outlining(buffer_id)

buffer_outline_items(buffer_id) ==
  /\ calls < MaxCalls
  /\ calls' = calls + 1
  /\ outline_task' = buffer_outline_items_task(buffer_id)
  /\ requests' = [requests EXCEPT ![buffer_id] =
                    IF outline_task'.state = "fetching" THEN @ + 1 ELSE @]
  /\ last' = [op |-> "buffer_outline_items", buf |-> buffer_id,
              pre |-> lsp_document_symbols[buffer_id], req |-> requests[buffer_id]]
  /\ UNCHANGED <<multibuffer, document_symbols, project, mode_full, lsp_document_symbols, refresh_document_symbols_task, outline_symbols_at_cursor, cursor, at_cursor, events, waves, entry_wave, included, pure_calls>>

\* a spawned task that stores the items it fetched
cache_after_outline_fetch_stored(cache, buffer_id, items) ==
  [cache EXCEPT ![buffer_id] = Present(items)]

\* the task spawned by buffer_outline_items ignores the editor handle
\* (async move |_, cx|): the items go to the caller, the cache stays
cache_after_outline_fetch(cache, buffer_id, items) == cache

\* the fetch of the returned task resolves: its items are highlighted and
\* handed to the caller
outline_fetch_resolves(outcome) ==
  /\ outline_task.state = "fetching"
  /\ outline_task' = Ready(outline_task.buf,
                           apply_syntax_highlights(outcome.items, snapshot_of(outline_task.buf)))
  /\ lsp_document_symbols' =
       cache_after_outline_fetch(lsp_document_symbols, outline_task.buf, outline_task'.items)
  /\ last' = Step("other", 0, Absent)
  /\ UNCHANGED <<multibuffer, document_symbols, project, mode_full, refresh_document_symbols_task, outline_symbols_at_cursor, cursor, at_cursor, requests, events, waves, entry_wave, calls, included, pure_calls>>

\* the background task of the returned task computes the syntax outline
outline_background_resolves ==
  /\ outline_task.state = "outlining"
  /\ outline_task' = Ready(outline_task.buf, syntax_outline(outline_task.buf))
  /\ last' = Step("other", 0, Absent)
  /\ UNCHANGED <<multibuffer, document_symbols, project, mode_full, lsp_document_symbols, refresh_document_symbols_task, outline_symbols_at_cursor, cursor, at_cursor, requests, events, waves, entry_wave, calls, included, pure_calls>>

(***************************************************************************)
(* The environment of the module: the cursor, the settings, the buffers.   *)
(***************************************************************************)
\* a selection change: the outline at the cursor is refreshed
move_cursor(c) ==
  /\ c # cursor
  /\ cursor' = c
  /\ outline_symbols_at_cursor' =
       refresh_outline_symbols_at_cursor(lsp_document_symbols, multibuffer, document_symbols, c)
  /\ requests' = requests_after_lookup(requests, lsp_document_symbols, c)
  /\ last' = Step("other", 0, Absent)
  /\ UNCHANGED <<multibuffer, document_symbols, project, mode_full, lsp_document_symbols, refresh_document_symbols_task, at_cursor, outline_task, events, waves, entry_wave, calls, included, pure_calls>>

\* a call of lsp_symbols_at_cursor at the cursor
query_symbols_at_cursor ==
  /\ at_cursor' = lsp_symbols_at_cursor(lsp_document_symbols, multibuffer, cursor)
  /\ requests' = requests_after_lookup(requests, lsp_document_symbols, cursor)
  /\ last' = Step("lsp_symbols_at_cursor", cursor.buf, lsp_document_symbols[cursor.buf])
  /\ UNCHANGED <<multibuffer, document_symbols, project, mode_full, lsp_document_symbols, refresh_document_symbols_task, outline_symbols_at_cursor, cursor, outline_task, events, waves, entry_wave, calls, included, pure_calls>>

\* the document_symbols setting of a buffer's language is switched
set_document_symbols(b) ==
  /\ document_symbols' = [document_symbols EXCEPT ![b] = ~@]
  /\ last' = Step("other", 0, Absent)
  /\ UNCHANGED <<multibuffer, project, mode_full, lsp_document_symbols, refresh_document_symbols_task, outline_symbols_at_cursor, cursor, at_cursor, outline_task, requests, events, waves, entry_wave, calls, included, pure_calls>>

\* a buffer is removed from the multibuffer
close_buffer(b) ==
  /\ b \in multibuffer
  /\ multibuffer' = multibuffer \ {b}
  /\ last' = Step("other", 0, Absent)
  /\ UNCHANGED <<document_symbols, project, mode_full, lsp_document_symbols, refresh_document_symbols_task, outline_symbols_at_cursor, cursor, at_cursor, outline_task, requests, events, waves, entry_wave, calls, included, pure_calls>>

(***************************************************************************)
(* The editor with its refresh task, its callers and the language server.  *)
(***************************************************************************)
Init ==
  /\ multibuffer = Buffers
  /\ document_symbols \in [Buffers -> BOOLEAN]
  /\ project \in BOOLEAN
  /\ mode_full \in BOOLEAN
  /\ lsp_document_symbols = [b \in Buffers |-> Absent]
  /\ refresh_document_symbols_task = {}
  /\ cursor = [buf |-> 1, off |-> 0]
  /\ outline_symbols_at_cursor = None
  /\ at_cursor = None
  /\ outline_task = NoTask
  /\ requests = [b \in Buffers |-> 0]
  /\ events = 0
  /\ waves = 0
  /\ entry_wave = [b \in Buffers |-> 0]
  /\ calls = 0
  /\ last = Step("init", 0, Absent)
  /\ included = [b \in Buffers |-> 0]
  /\ NoPureCall

\* the refresh task: its spawning, its debounce, its fetches, its completion
Scheduler ==
  \/ \E f \in {None} \cup {Some(b) : b \in Buffers} : refresh_document_symbols(f)
  \/ \E t \in refresh_document_symbols_task : debounce_elapsed(t)
  \/ \E t \in refresh_document_symbols_task, b \in Buffers, o \in FetchOutcomes : fetch_resolves(t, b, o)
  \/ \E t \in refresh_document_symbols_task : wave_completes(t)

Next ==
  \/ Scheduler
  \/ \E b \in Buffers : set_document_symbols(b)
  \/ \E b \in Buffers : close_buffer(b)

Spec == Init /\ [][Next]_vars

(***************************************************************************)
(* The refresh task under a fair executor and an answering server.         *)
(***************************************************************************)
\* the task whose join_all is ready runs to its end and leaves the field:
\* the steps of wave_completes
task_polled ==
  \E t \in refresh_document_symbols_task :
    join_all(t) /\ refresh_document_symbols_task' = tasks_after_completion(refresh_document_symbols_task, t)

\* the timer of a live task fires, every issued fetch resolves, and a task
\* whose join_all is ready is polled
Fairness ==
  /\ WF_vars(\E t \in refresh_document_symbols_task : debounce_elapsed(t))
  /\ WF_vars(\E t \in refresh_document_symbols_task, b \in Buffers, o \in FetchOutcomes : fetch_resolves(t, b, o))
  /\ WF_refresh_document_symbols_task(task_polled)

NextLive == Scheduler

SpecLive == Init /\ [][NextLive]_vars /\ Fairness

(***************************************************************************)
(* The callers of buffer_outline_items beside the refresh task.            *)
(***************************************************************************)
\* the editor may hold any of the buffers when the calls start
InitOutline ==
  /\ multibuffer \in SUBSET Buffers
  /\ document_symbols \in [Buffers -> BOOLEAN]
  /\ project \in BOOLEAN
  /\ mode_full \in BOOLEAN
  /\ lsp_document_symbols = [b \in Buffers |-> Absent]
  /\ refresh_document_symbols_task = {}
  /\ cursor = [buf |-> 1, off |-> 0]
  /\ outline_symbols_at_cursor = None
  /\ at_cursor = None
  /\ outline_task = NoTask
  /\ requests = [b \in Buffers |-> 0]
  /\ events = 0
  /\ waves = 0
  /\ entry_wave = [b \in Buffers |-> 0]
  /\ calls = 0
  /\ last = Step("init", 0, Absent)
  /\ included = [b \in Buffers |-> 0]
  /\ NoPureCall

\* where the cursor may be put
Cursors == [buf : {1}, off : Offsets] \cup {[buf |-> 2, off |-> 0]}

NextOutline ==
  \/ Scheduler
  \/ \E b \in Buffers : buffer_outline_items(b)
  \/ \E o \in FetchOutcomes : outline_fetch_resolves(o)
  \/ outline_background_resolves

SpecOutline == InitOutline /\ [][NextOutline]_vars

\* the callers of every operation of the module in one editor whose buffers
\* stay open and whose settings stay as they are, the setting of one buffer
\* at least being off
InitCallers ==
  /\ Init
  /\ \E b \in Buffers : ~document_symbols[b]

NextCallers ==
  \/ NextOutline
  \/ \E c \in Cursors : move_cursor(c)
  \/ query_symbols_at_cursor

SpecCallers == InitCallers /\ [][NextCallers]_vars

(***************************************************************************)
(* The cursor and the settings beside the refresh task.                    *)
(***************************************************************************)
NextCursor ==
  \/ Scheduler
  \/ \E b \in Buffers : set_document_symbols(b)
  \/ \E c \in Cursors : move_cursor(c)
  \/ query_symbols_at_cursor

SpecCursor == Init /\ [][NextCursor]_vars

(***************************************************************************)
(* An editor at rest, beside which the pure functions are explored.        *)
(***************************************************************************)
editor == <<multibuffer, document_symbols, project, mode_full, lsp_document_symbols, refresh_document_symbols_task, outline_symbols_at_cursor, cursor, at_cursor, outline_task, requests, events, waves, entry_wave, calls, last, included>>

EditorAtRest ==
  /\ multibuffer = Buffers
  /\ document_symbols = [b \in Buffers |-> TRUE]
  /\ project = TRUE
  /\ mode_full = TRUE
  /\ lsp_document_symbols = [b \in Buffers |-> Absent]
  /\ refresh_document_symbols_task = {}
  /\ cursor = [buf |-> 1, off |-> 0]
  /\ outline_symbols_at_cursor = None
  /\ at_cursor = None
  /\ outline_task = NoTask
  /\ requests = [b \in Buffers |-> 0]
  /\ events = 0
  /\ waves = 0
  /\ entry_wave = [b \in Buffers |-> 0]
  /\ calls = 0
  /\ last = Step("init", 0, Absent)
  /\ included = [b \in Buffers |-> 0]

(***************************************************************************)
(* highlights_from_buffer on every name of at most MaxName characters,     *)
(* every styled text of at most MaxText characters, every symbol range and *)
(* every selection start in it.                                            *)
(***************************************************************************)
\* the characters of names and texts: a word character and whitespace
Chars == {"a", " "}
\* the styles of the theme; 0: the chunk has no style
Styles == 0 .. 1

Names == UNION {[1 .. n -> Chars] : n \in 0 .. MaxName}

Snapshots ==
  UNION {[text : [1 .. n -> Chars], style : [1 .. n -> Styles], cuts : {{}}] : n \in 0 .. MaxText}

\* the arguments of a call: the selection range of a document symbol lies in
\* its range
InitHighlights ==
  /\ EditorAtRest
  /\ symbols_response = Idle
  /\ settings_file = Idle
  /\ ElsewhereAtRest
  /\ \E name \in Names, snapshot \in Snapshots :
       \E range_start \in 0 .. Len(snapshot.text) :
         \E range_end \in range_start .. Len(snapshot.text) :
           \E selection_start \in range_start .. range_end :
             highlight_call = [phase |-> "input", name |-> name, name_offset_in_text |-> 0,
                               snapshot |-> snapshot, range_start |-> range_start,
                               range_end |-> range_end, selection_start |-> selection_start,
                               result |-> None, reads |-> <<>>]

\* highlights_from_buffer(name, name_offset_in_text, snapshot, symbol_range,
\* selection_start_offset, syntax_theme) is called and returns
call_highlights_from_buffer ==
  /\ highlight_call.phase = "input"
  /\ highlight_call' =
       [highlight_call EXCEPT
          !.phase = "done",
          !.result = highlights_from_buffer(highlight_call.name, highlight_call.name_offset_in_text,
                                            highlight_call.snapshot, highlight_call.range_start,
                                            highlight_call.range_end, highlight_call.selection_start),
          !.reads = snapshot_reads(highlight_call.name, highlight_call.name_offset_in_text,
                                   highlight_call.snapshot, highlight_call.range_start,
                                   highlight_call.range_end, highlight_call.selection_start)]
  /\ UNCHANGED <<editor, symbols_response, settings_file, elsewhere>>

NextHighlights == call_highlights_from_buffer

SpecHighlights == InitHighlights /\ [][NextHighlights]_vars

(***************************************************************************)
(* apply_syntax_highlights on every list of at most MaxItems items, and    *)
(* the cache entry the completion of a wave makes of the list.             *)
(***************************************************************************)
MaxItems == 2

\* the items of a list for a snapshot: with and without a name, with and
\* without highlight_ranges from before, those in a style the snapshots do
\* not have, the symbol range being the text
ItemsOf(snapshot) ==
  [depth : 0 .. 1, start : {0}, end : {Len(snapshot.text)}, sel : {0},
   text : {<<>>, <<"a">>},
   hl : {<<>>, <<[start |-> 0, end |-> 1, style |-> 2]>>}]

InitApply ==
  /\ EditorAtRest
  /\ highlight_call = Idle
  /\ symbols_response = Idle
  /\ settings_file = Idle
  /\ docker_output = Idle
  /\ audio_test_window = [open |-> FALSE, stop_playback |-> None]
  /\ playbacks = <<>>
  /\ \E snapshot \in Snapshots :
       \E items \in UNION {[1 .. n -> ItemsOf(snapshot)] : n \in 0 .. MaxItems} :
         items_call = [phase |-> "input", snapshot |-> snapshot, items |-> items,
                       highlighted |-> items, cached |-> Absent]

\* the completion closure for the result of one buffer:
\* apply_syntax_highlights on the items, then the extend of the cache
call_apply_syntax_highlights ==
  /\ items_call.phase = "input"
  /\ LET highlighted == apply_syntax_highlights(items_call.items, items_call.snapshot)
     IN  items_call' =
           [items_call EXCEPT
              !.phase = "done",
              !.highlighted = highlighted,
              !.cached = extend([b \in Buffers |-> Absent], 1 :> highlighted)[1]]
  /\ UNCHANGED <<editor, highlight_call, symbols_response, settings_file, docker_output, audio_test_window, playbacks>>

NextApply == call_apply_syntax_highlights

SpecApply == InitApply /\ [][NextApply]_vars

(***************************************************************************)
(* The normalisation of a server response into outline items, done by the  *)
(* project before the items reach the editor.  A nested response is a      *)
(* forest of symbols: symbol i has the parent parent[i] (0: top level), a   *)
(* symbol's children are in the order of their numbers.  A flat response   *)
(* is a list of symbols without container names.                           *)
(***************************************************************************)
NestedResponses ==
  UNION {{[shape |-> "nested", n |-> n, parent |-> f] :
            f \in {g \in [1 .. n -> 0 .. n] : \A i \in 1 .. n : g[i] < i}} : n \in 0 .. MaxSymbols}

FlatResponses == {[shape |-> "flat", n |-> n, parent |-> <<>>] : n \in 0 .. MaxSymbols}

\* a flattening that puts the children of a symbol before the symbol
RECURSIVE flatten_children_first(_, _, _, _)
flatten_children_first(response, node, depth, from) ==
  LET kids == {i \in 1 .. response.n : response.parent[i] = node /\ i >= from}
  IN  IF kids = {} THEN <<>>
      ELSE flatten_children_first(response, Least(kids), depth + 1, 1) \o
           <<[depth |-> depth, id |-> Least(kids)]>> \o
           flatten_children_first(response, node, depth, Least(kids) + 1)

\* the children of node from the child numbered from on, each followed by
\* its own children one level deeper
RECURSIVE flatten(_, _, _, _)
flatten(response, node, depth, from) ==
  LET kids == {i \in 1 .. response.n : response.parent[i] = node /\ i >= from}
  IN  IF kids = {} THEN <<>>
      ELSE <<[depth |-> depth, id |-> Least(kids)]>> \o
           flatten(response, Least(kids), depth + 1, 1) \o
           flatten(response, node, depth, Least(kids) + 1)

\* the item list made of a response
normalize(response) ==
  IF response.shape = "flat"
  THEN [i \in 1 .. response.n |-> [depth |-> 0, id |-> i]]
  ELSE flatten(response, 0, 0, 1)

InitNormalize ==
  /\ EditorAtRest
  /\ highlight_call = Idle
  /\ settings_file = Idle
  /\ ElsewhereAtRest
  /\ \E response \in NestedResponses \cup FlatResponses :
       symbols_response = [phase |-> "input", response |-> response, items |-> <<>>]

\* the response is normalised
normalize_response ==
  /\ symbols_response.phase = "input"
  /\ symbols_response' = [symbols_response EXCEPT !.phase = "done",
                                                   !.items = normalize(symbols_response.response)]
  /\ UNCHANGED <<editor, highlight_call, settings_file, elsewhere>>

NextNormalize == normalize_response

SpecNormalize == InitNormalize /\ [][NextNormalize]_vars

(***************************************************************************)
(* The settings migration of crates/migrator (m_2026_02_04/settings.rs).   *)
(* A serde_json::Value is [t, v]: t its kind, v the text of a null, bool   *)
(* or string, or the map of an object (a function from its keys).          *)
(***************************************************************************)
Null == [t |-> "null", v |-> "null"]
Bool(b) == [t |-> "bool", v |-> IF b THEN "true" ELSE "false"]
Str(x) == [t |-> "string", v |-> x]
Object(map) == [t |-> "object", v |-> map]

\* serde_json::Map::new()
EmptyMap == [k \in {} |-> Null]

\* Map::contains_key, Map::insert, Map::remove
contains_key(map, key) == key \in DOMAIN map
insert(map, key, value) == [k \in DOMAIN map \cup {key} |-> IF k = key THEN value ELSE map[k]]
remove(map, key) == [k \in DOMAIN map \ {key} |-> map[k]]

\* Value::get(key): the member of an object, None for a missing key or a
\* value that is no object
get(value, key) ==
  IF value.t = "object" /\ contains_key(value.v, key) THEN Some(value.v[key]) ELSE None

\* a rename in which the value of "default_mode" replaces that of "default"
move_default_mode_overwriting(map) ==
  IF contains_key(map, "default_mode")
  THEN insert(remove(map, "default_mode"), "default", map["default_mode"])
  ELSE map

\* a rename that exchanges the two values when the object has both keys
move_default_mode_exchanging(map) ==
  IF contains_key(map, "default_mode")
  THEN IF contains_key(map, "default")
       THEN insert(insert(map, "default", map["default_mode"]), "default_mode", map["default"])
       ELSE insert(remove(map, "default_mode"), "default", map["default_mode"])
  ELSE map

\* if let Some(default_mode) = object.remove("default_mode"): the value goes
\* to "default" unless the object has a "default"
move_default_mode(map) ==
  IF contains_key(map, "default_mode")
  THEN IF contains_key(map, "default")
       THEN remove(map, "default_mode")
       ELSE insert(remove(map, "default_mode"), "default", map["default_mode"])
  ELSE map

migrate_default_mode_to_default(tool_permissions) ==
  IF tool_permissions.t # "object" THEN tool_permissions
  ELSE LET moved == move_default_mode(tool_permissions.v)
           tools == get(Object(moved), "tools")
       IN  IF tools.some /\ tools.val.t = "object"
           THEN Object(insert(moved, "tools",
                  Object([tool_name \in DOMAIN tools.val.v |->
                            IF tools.val.v[tool_name].t = "object"
                            THEN Object(move_default_mode(tools.val.v[tool_name].v))
                            ELSE tools.val.v[tool_name]])))
           ELSE Object(moved)

\* entry("tool_permissions").or_insert_with(..), replaced by an empty
\* object when it is no object: the map the default goes to
tool_permissions_for_default(map) ==
  IF contains_key(map, "tool_permissions") /\ map["tool_permissions"].t = "object"
  THEN map["tool_permissions"].v
  ELSE EmptyMap

migrate_agent_tool_permissions(agent) ==
  IF agent.t # "object" THEN agent
  ELSE LET always_allow == get(agent, "always_allow_tool_actions")
           should_migrate_always_allow == always_allow.some /\ always_allow.val = Bool(TRUE)
           removed == IF always_allow.some /\ always_allow.val.t \notin {"bool", "null"}
                      THEN agent.v
                      ELSE remove(agent.v, "always_allow_tool_actions")
           defaulted ==
             IF should_migrate_always_allow
             THEN LET tool_permissions_object == tool_permissions_for_default(removed)
                  IN  insert(removed, "tool_permissions",
                             Object(IF ~contains_key(tool_permissions_object, "default")
                                       /\ ~contains_key(tool_permissions_object, "default_mode")
                                    THEN insert(tool_permissions_object, "default", Str("allow"))
                                    ELSE tool_permissions_object))
             ELSE removed
       IN  IF contains_key(defaulted, "tool_permissions")
           THEN Object(insert(defaulted, "tool_permissions",
                              migrate_default_mode_to_default(defaulted["tool_permissions"])))
           ELSE Object(defaulted)

migrate_agent_with_profiles(agent) ==
  LET migrated == migrate_agent_tool_permissions(agent)
      profiles == get(migrated, "profiles")
  IN  IF profiles.some /\ profiles.val.t = "object"
      THEN Object(insert(migrated.v, "profiles",
             Object([profile_name \in DOMAIN profiles.val.v |->
                       migrate_agent_tool_permissions(profiles.val.v[profile_name])])))
      ELSE migrated

set_agent_server_default_mode(obj, server_name, mode) ==
  LET with_servers == IF contains_key(obj, "agent_servers") THEN obj
                      ELSE insert(obj, "agent_servers", Object(EmptyMap))
      agent_servers == with_servers["agent_servers"]
  IN  IF agent_servers.t # "object" THEN with_servers
      ELSE LET agent_servers_object ==
                 IF contains_key(agent_servers.v, server_name) THEN agent_servers.v
                 ELSE insert(agent_servers.v, server_name, Object(EmptyMap))
               server == agent_servers_object[server_name]
           IN  IF server.t # "object"
               THEN insert(with_servers, "agent_servers", Object(agent_servers_object))
               ELSE IF contains_key(server.v, "default_mode")
                    THEN insert(with_servers, "agent_servers", Object(agent_servers_object))
                    ELSE insert(with_servers, "agent_servers",
                                Object(insert(agent_servers_object, server_name,
                                              Object(insert(server.v, "default_mode", Str(mode))))))

migrate_one(obj) ==
  LET agent == get(Object(obj), "agent")
      always_allow == IF agent.some THEN get(agent.val, "always_allow_tool_actions") ELSE None
      had_always_allow == always_allow.some /\ always_allow.val = Bool(TRUE)
      migrated == IF agent.some
                  THEN insert(obj, "agent", migrate_agent_with_profiles(agent.val))
                  ELSE obj
  IN  IF had_always_allow
      THEN set_agent_server_default_mode(
             set_agent_server_default_mode(migrated, "claude", "bypassPermissions"),
             "codex", "full-access")
      ELSE migrated

\* a key that may be missing from an object
Missing == [t |-> "missing", v |-> "missing"]

\* the object made of the members of a record that are not Missing
ObjectOf(members) ==
  Object([k \in {key \in DOMAIN members : members[key] # Missing} |-> members[k]])

\* the settings files explored: every shape of the keys the migration reads
RuleValues ==
  {ObjectOf(r) : r \in [default : {Missing, Str("deny")}, default_mode : {Missing, Str("confirm")}]}

ToolsValues == {Missing} \cup {Object([tool_name \in {"terminal"} |-> rules]) : rules \in RuleValues}

ToolPermissionsValues ==
  {Missing, Null} \cup
  {ObjectOf(r) : r \in [default : {Missing, Str("deny")}, default_mode : {Missing, Str("confirm")}, tools : ToolsValues]}

AlwaysAllowValues == {Missing, Bool(TRUE), Bool(FALSE), Null, Str("yes")}

ProfileValues ==
  {ObjectOf(r) : r \in [always_allow_tool_actions : {Missing, Bool(TRUE)},
                        tool_permissions : {Missing, Object([k \in {"default_mode"} |-> Str("confirm")])}]}

ProfilesValues == {Missing, Null} \cup {Object([profile_name \in {"write"} |-> profile]) : profile \in ProfileValues}

AgentValues ==
  {Missing, Null} \cup
  {ObjectOf(r) : r \in [always_allow_tool_actions : AlwaysAllowValues,
                        tool_permissions : ToolPermissionsValues,
                        profiles : ProfilesValues]}

ServerValues ==
  {Missing, Null, Object(EmptyMap), Object([k \in {"default_mode"} |-> Str("default")])}

AgentServersValues ==
  {Missing, Null} \cup {ObjectOf(r) : r \in [claude : ServerValues, codex : ServerValues]}

SettingsFiles == {ObjectOf(r).v : r \in [agent : AgentValues, agent_servers : AgentServersValues]}

InitMigrate ==
  /\ EditorAtRest
  /\ highlight_call = Idle
  /\ symbols_response = Idle
  /\ ElsewhereAtRest
  /\ \E obj \in SettingsFiles :
       settings_file = [phase |-> "input", obj |-> obj, migrated |-> obj, again |-> obj]

\* migrate_tool_permission_defaults: migrate_one on the settings object
migrate_tool_permission_defaults ==
  /\ settings_file.phase = "input"
  /\ settings_file' = [settings_file EXCEPT !.phase = "done",
                                             !.migrated = migrate_one(settings_file.obj)]
  /\ UNCHANGED <<editor, highlight_call, symbols_response, elsewhere>>

\* the migration is run on the file it migrated
migrate_tool_permission_defaults_again ==
  /\ settings_file.phase = "done"
  /\ settings_file' = [settings_file EXCEPT !.phase = "again",
                                             !.again = migrate_one(settings_file.migrated)]
  /\ UNCHANGED <<editor, highlight_call, symbols_response, elsewhere>>

NextMigrate == migrate_tool_permission_defaults \/ migrate_tool_permission_defaults_again

SpecMigrate == InitMigrate /\ [][NextMigrate]_vars

(***************************************************************************)
(* The audio test window.  A playback is what one start_test_playback      *)
(* made:                                                                   *)
(*   stop_signal  the AtomicBool the two threads and the handle share      *)
(*   handle       the deferred closure of line 160 exists                  *)
(*   input        where the thread AudioTestInput is                       *)
(*   output       where the thread AudioTestOutput is                      *)
(*   microphone   what the next() of the input stream does                 *)
(*   source       the sync_channel(1) that carries the ChannelSource       *)
(*   source_tx, source_rx  its two ends exist                              *)
(*   sample_rx    the receiver of the samples, held by the ChannelSource   *)
(***************************************************************************)
MaxPlaybacks == 2

\* the playback start_test_playback leaves behind.  thread::Builder::spawn
\* may fail for either thread: with "?" the function returns at the first
\* spawn that fails, before the handle is made
start_test_playback(outcome) ==
  [stop_signal |-> FALSE,
   handle |-> outcome = "ok",
   input |-> IF outcome = "input_spawn_failed" THEN "unspawned" ELSE "open",
   output |-> IF outcome = "ok" THEN "open" ELSE "unspawned",
   microphone |-> "closed",
   source |-> "empty",
   source_tx |-> outcome # "input_spawn_failed",
   source_rx |-> outcome = "ok",
   sample_rx |-> "none"]

\* the drop of what stop_playback held: the deferred closure runs and
\* stores true in the stop signal
drop_handle(all, taken) ==
  IF taken.some
  THEN [all EXCEPT ![taken.val].stop_signal = TRUE, ![taken.val].handle = FALSE]
  ELSE all

\* a toggle that goes on to start a playback after stopping one
returns_after_stop_never(taken) == FALSE

\* if let Some(_cb) = self._stop_playback.take() { cx.notify(); return; }
returns_after_stop(taken) == taken.some

InitAudio ==
  /\ EditorAtRest
  /\ highlight_call = Idle
  /\ symbols_response = Idle
  /\ settings_file = Idle
  /\ ElsewhereAtRest

\* open_audio_test_window: a window is made when there is none
open_audio_test_window ==
  /\ ~audio_test_window.open
  /\ audio_test_window' = [open |-> TRUE, stop_playback |-> None]
  /\ UNCHANGED <<editor, highlight_call, symbols_response, settings_file, items_call, docker_output, playbacks>>

\* AudioTestWindow::toggle_testing
toggle_testing ==
  /\ audio_test_window.open
  /\ LET taken == audio_test_window.stop_playback
         stopped == drop_handle(playbacks, taken)
     IN  IF returns_after_stop(taken)
         THEN /\ playbacks' = stopped
              /\ audio_test_window' = [audio_test_window EXCEPT !.stop_playback = None]
         ELSE /\ Len(playbacks) < MaxPlaybacks
              /\ \E outcome \in {"ok", "input_spawn_failed", "output_spawn_failed"} :
                   /\ playbacks' = Append(stopped, start_test_playback(outcome))
                   /\ audio_test_window' =
                        [audio_test_window EXCEPT
                           !.stop_playback = IF outcome = "ok" THEN Some(Len(playbacks) + 1)
                                             ELSE None]
  /\ UNCHANGED <<editor, highlight_call, symbols_response, settings_file, items_call, docker_output>>

\* Drop for AudioTestWindow, as the window is closed
drop_audio_test_window ==
  /\ audio_test_window.open
  /\ playbacks' = drop_handle(playbacks, audio_test_window.stop_playback)
  /\ audio_test_window' = [open |-> FALSE, stop_playback |-> None]
  /\ UNCHANGED <<editor, highlight_call, symbols_response, settings_file, items_call, docker_output>>

\* the input thread returns: its sender of the source is dropped
input_returns(playback) == [playback EXCEPT !.input = "done", !.source_tx = FALSE]

\* the output thread returns: the receiver of the source is dropped, and
\* with it a ChannelSource it holds or that is in the channel
output_returns(playback) ==
  [playback EXCEPT !.output = "done",
                   !.source_rx = FALSE,
                   !.source = IF @ = "empty" THEN "empty" ELSE "dropped",
                   !.sample_rx = IF @ = "none" THEN "none" ELSE "dropped"]

\* audio::open_input_stream in the input thread: Ok or Err
input_opens_microphone(i) ==
  /\ playbacks[i].input = "open"
  /\ \E opened \in BOOLEAN :
       playbacks' = [playbacks EXCEPT
                       ![i] = IF opened
                              THEN [@ EXCEPT !.input = "send", !.microphone = "delivering"]
                              ELSE input_returns(@)]
  /\ UNCHANGED <<editor, highlight_call, symbols_response, settings_file, items_call, docker_output, audio_test_window>>

\* source_tx.send(channel_source): into the free place of the channel, or
\* Err when the receiver is gone
input_sends_source(i) ==
  /\ playbacks[i].input = "send"
  /\ playbacks' = [playbacks EXCEPT
                     ![i] = IF @.source_rx
                            THEN [@ EXCEPT !.input = "samples", !.source = "buffered",
                                           !.sample_rx = "alive"]
                            ELSE input_returns(@)]
  /\ UNCHANGED <<editor, highlight_call, symbols_response, settings_file, items_call, docker_output, audio_test_window>>

\* one turn of for sample in microphone.  The stream yields a sample: the
\* stop signal is loaded, and the sample is passed to try_send, whose result
\* is dropped.  Or the stream is at its end: next() returns None and the
\* loop is left.  While the device is silent next() does not return
input_takes_sample(i) ==
  /\ playbacks[i].input = "samples"
  /\ playbacks[i].microphone \in {"delivering", "ended"}
  /\ playbacks' = [playbacks EXCEPT
                     ![i] = IF @.stop_signal \/ @.microphone = "ended"
                            THEN input_returns(@) ELSE @]
  /\ UNCHANGED <<editor, highlight_call, symbols_response, settings_file, items_call, docker_output, audio_test_window>>

\* the device stops delivering samples, or reports an error, which ends
\* the stream
microphone_stops(i) ==
  /\ playbacks[i].input = "samples"
  /\ \E stopped \in {"silent", "ended"} :
       /\ playbacks[i].microphone \in {"delivering", "silent"} \ {stopped}
       /\ playbacks' = [playbacks EXCEPT ![i].microphone = stopped]
  /\ UNCHANGED <<editor, highlight_call, symbols_response, settings_file, items_call, docker_output, audio_test_window>>

\* audio::open_output_stream in the output thread: Ok or Err
output_opens_device(i) ==
  /\ playbacks[i].output = "open"
  /\ \E opened \in BOOLEAN :
       playbacks' = [playbacks EXCEPT
                       ![i] = IF opened THEN [@ EXCEPT !.output = "recv"]
                              ELSE output_returns(@)]
  /\ UNCHANGED <<editor, highlight_call, symbols_response, settings_file, items_call, docker_output, audio_test_window>>

\* source_rx.recv_timeout(5 s): the source when it is in the channel;
\* otherwise Err, at once when the sender is gone, after the timeout when
\* it is not
output_receives_source(i) ==
  /\ playbacks[i].output = "recv"
  /\ playbacks' = [playbacks EXCEPT
                     ![i] = IF @.source = "buffered"
                            THEN [@ EXCEPT !.output = "poll", !.source = "received"]
                            ELSE output_returns(@)]
  /\ UNCHANGED <<editor, highlight_call, symbols_response, settings_file, items_call, docker_output, audio_test_window>>

\* while !stop_signal.load(..) { sleep }: the loop is left when the signal
\* is set
output_polls(i) ==
  /\ playbacks[i].output = "poll"
  /\ playbacks[i].stop_signal
  /\ playbacks' = [playbacks EXCEPT ![i] = output_returns(@)]
  /\ UNCHANGED <<editor, highlight_call, symbols_response, settings_file, items_call, docker_output, audio_test_window>>

NextAudio ==
  \/ open_audio_test_window
  \/ toggle_testing
  \/ drop_audio_test_window
  \/ \E i \in DOMAIN playbacks :
       \/ input_opens_microphone(i)
       \/ input_sends_source(i)
       \/ input_takes_sample(i)
       \/ microphone_stops(i)
       \/ output_opens_device(i)
       \/ output_receives_source(i)
       \/ output_polls(i)

SpecAudio == InitAudio /\ [][NextAudio]_vars

\* every thread that can take a step takes one: the input thread and the
\* output thread of each playback are threads of the operating system
SpecAudioLive ==
  /\ InitAudio
  /\ [][NextAudio]_vars
  /\ \A i \in 1 .. MaxPlaybacks :
       /\ WF_playbacks(/\ i \in DOMAIN playbacks
                       /\ \/ input_opens_microphone(i)
                          \/ input_sends_source(i)
                          \/ input_takes_sample(i))
       /\ WF_playbacks(/\ i \in DOMAIN playbacks
                       /\ \/ output_opens_device(i)
                          \/ output_receives_source(i)
                          \/ output_polls(i))

(***************************************************************************)
(* deserialize_json_output.  The stdout of a command is a sequence of      *)
(* tokens: the punctuation of JSON, the strings "ID", "x" and "abdb", null, *)
(* white space " ", and "\\xFF", a byte that is no UTF-8.  A result is      *)
(*   [ok |-> TRUE, val |-> None or Some(the ID)]   or                      *)
(*   [ok |-> FALSE, err |-> "UnmappedError"]                               *)
(***************************************************************************)
MaxFields == 2

\* serde_json::from_str::<Option<DockerPs>>: white space between tokens is
\* skipped; null is None; an object is Some(DockerPs) when it has the field
\* "ID" once, with a string, other fields being ignored; all else is an
\* error
from_str(raw) ==
  LET json == SelectSeq(raw, LAMBDA token : token # " ")
      strings == {"ID", "x", "abdb"}
      fields == (Len(json) - 1) \div 4
      key(j) == json[4 * j - 2]
      value(j) == json[4 * j]
      is_object ==
        /\ Len(json) >= 2
        /\ json[1] = "{"
        /\ json[Len(json)] = "}"
        /\ \/ Len(json) = 2
           \/ /\ Len(json) = 4 * fields + 1
              /\ \A j \in 1 .. fields :
                   /\ key(j) \in strings
                   /\ json[4 * j - 1] = ":"
                   /\ value(j) \in strings \cup {"null"}
                   /\ j < fields => json[4 * j + 1] = ","
      ids == IF is_object /\ Len(json) > 2 THEN {j \in 1 .. fields : key(j) = "ID"} ELSE {}
  IN  IF json = <<"null">> THEN [ok |-> TRUE, val |-> None]
      ELSE IF is_object /\ Cardinality(ids) = 1 /\ \A j \in ids : value(j) \in strings
           THEN [ok |-> TRUE, val |-> Some(value(CHOOSE j \in ids : TRUE))]
           ELSE [ok |-> FALSE, err |-> "serde_json::Error"]

\* raw is String::from_utf8_lossy(&output.stdout): a byte that is no UTF-8
\* becomes U+FFFD
deserialize_json_output(output) ==
  IF output.success
  THEN LET raw == [k \in DOMAIN output.stdout |->
                     IF output.stdout[k] = "\\xFF" THEN "U+FFFD" ELSE output.stdout[k]]
       IN  IF raw = <<>> THEN [ok |-> TRUE, val |-> None]
           ELSE IF from_str(raw).ok THEN from_str(raw)
                ELSE [ok |-> FALSE, err |-> "UnmappedError"]
  ELSE [ok |-> FALSE, err |-> "UnmappedError"]

\* the Outputs explored: either exit status; as stdout nothing, white space,
\* null, a byte that is no UTF-8, and the objects of at most MaxFields
\* fields, as they are, after white space, cut short and followed by a
\* second object
Outputs ==
  LET members == [key : {"ID", "x"}, value : {"abdb", "null"}]
      object(fields) ==
        IF fields = <<>> THEN <<"{", "}">>
        ELSE [k \in 1 .. (4 * Len(fields) + 1) |->
                IF k = 1 THEN "{"
                ELSE IF k = 4 * Len(fields) + 1 THEN "}"
                ELSE IF k % 4 = 2 THEN fields[(k + 2) \div 4].key
                ELSE IF k % 4 = 3 THEN ":"
                ELSE IF k % 4 = 0 THEN fields[k \div 4].value
                ELSE ","]
      objects == {object(fields) : fields \in UNION {[1 .. n -> members] : n \in 0 .. MaxFields}}
      stdouts ==
        {<<>>, <<" ">>, <<"null">>, <<"null", " ">>, <<"\\xFF">>} \cup objects \cup
        {<<" ">> \o o \o <<" ">> : o \in objects} \cup
        {SubSeq(o, 1, Len(o) - 1) : o \in objects} \cup
        {o \o <<"{", "}">> : o \in objects}
  IN  [success : BOOLEAN, stdout : stdouts]

InitDocker ==
  /\ EditorAtRest
  /\ highlight_call = Idle
  /\ symbols_response = Idle
  /\ settings_file = Idle
  /\ items_call = Idle
  /\ audio_test_window = [open |-> FALSE, stop_playback |-> None]
  /\ playbacks = <<>>
  /\ \E output \in Outputs :
       docker_output = [phase |-> "input", output |-> output,
                        result |-> [ok |-> FALSE, err |-> "none"]]

\* deserialize_json_output::<DockerPs>(output) is called and returns
call_deserialize_json_output ==
  /\ docker_output.phase = "input"
  /\ docker_output' = [docker_output EXCEPT
                         !.phase = "done",
                         !.result = deserialize_json_output(docker_output.output)]
  /\ UNCHANGED <<editor, highlight_call, symbols_response, settings_file, items_call, audio_test_window, playbacks>>

NextDocker == call_deserialize_json_output

SpecDocker == InitDocker /\ [][NextDocker]_vars

(***************************************************************************)
(* The ancestor filter on every cached list of at most MaxLen items.       *)
(***************************************************************************)
FilterItems ==
  {Sym(d, s, e, s, <<"s">>) : d \in Depths, s \in Offsets, e \in Offsets} \cap
  {it \in [depth : Depths, start : Offsets, end : Offsets, sel : Offsets, text : {<<"s">>}, hl : {<<>>}] : it.start <= it.end}

ItemLists == UNION {[1 .. n -> FilterItems] : n \in 0 .. MaxLen}

FilterCursors == Cursors

InitFilter ==
  /\ multibuffer = Buffers
  /\ document_symbols = [b \in Buffers |-> TRUE]
  /\ project = TRUE
  /\ mode_full = TRUE
  /\ \E entry \in {Absent} \cup {Present(l) : l \in ItemLists} :
       lsp_document_symbols = [b \in Buffers |-> IF b = 1 THEN entry ELSE Absent]
  /\ refresh_document_symbols_task = {}
  /\ cursor = [buf |-> 1, off |-> 0]
  /\ outline_symbols_at_cursor = None
  /\ at_cursor = None
  /\ outline_task = NoTask
  /\ requests = [b \in Buffers |-> 0]
  /\ events = 0
  /\ waves = 0
  /\ entry_wave = [b \in Buffers |-> 0]
  /\ calls = 0
  /\ last = Step("init", 0, Absent)
  /\ included = [b \in Buffers |-> 0]
  /\ NoPureCall

NextFilter ==
  \/ \E c \in FilterCursors : move_cursor(c)
  \/ query_symbols_at_cursor

SpecFilter == InitFilter /\ [][NextFilter]_vars

(***************************************************************************)
(* Properties of the refresh task (specification Spec).                    *)
(***************************************************************************)
\* C1: for every buffer the wave of the visible cache entry never decreases,
\* and every step that writes an entry writes the result of the newest wave
\* spawned so far: once a later refresh call has spawned its wave, no step
\* makes an earlier wave's result the entry, however the responses arrive.
C1_LaterWaveWins ==
  [][\A b \in Buffers :
       /\ entry_wave'[b] >= entry_wave[b]
       /\ (entry_wave'[b] # entry_wave[b] \/ lsp_document_symbols'[b] # lsp_document_symbols[b])
            => entry_wave'[b] = waves]_vars

\* two waves have fetched for buffer 1, only one wave has completed, and the
\* entry is the second wave's: the first was superseded while in flight
C1_Witness ==
  /\ waves = 2
  /\ requests[1] = 2
  /\ events = 1
  /\ entry_wave[1] = 2
  /\ lsp_document_symbols[1].present

\* C2: when the fetch of a buffer failed, the completion of its wave leaves
\* the buffer's cache entry as it was before (present entries keep their
\* items, absent entries stay absent).
C2_FailedFetchKeepsEntry ==
  last.op = "wave_completes" =>
    \A b \in DOMAIN last.wave.results :
      ~last.wave.results[b].ok => lsp_document_symbols[b] = last.before[b]

\* C3: when a buffer was open at the time its fetch was issued and is no
\* longer in the multibuffer when the wave completes, the completion leaves
\* the cache entry of that buffer id as it was.
C3_ClosedBufferNotWritten ==
  last.op = "wave_completes" =>
    \A b \in DOMAIN last.wave.results :
      (b \in last.wave.issued_open /\ b \notin multibuffer)
        => lsp_document_symbols[b] = last.before[b]

(***************************************************************************)
(* Properties of the ancestor filter (specification SpecFilter).           *)
(***************************************************************************)
\* the state right after a call of lsp_symbols_at_cursor at the cursor
Queried == last.op = "lsp_symbols_at_cursor"

Entry == lsp_document_symbols[cursor.buf]

Encloses(item, off) == item.start <= off /\ off <= item.end

\* the positions of the cached items that enclose the cursor, in order
RECURSIVE EnclosingFrom(_, _, _)
EnclosingFrom(items, i, off) ==
  IF i > Len(items) THEN <<>>
  ELSE IF Encloses(items[i], off)
       THEN <<i>> \o EnclosingFrom(items, i + 1, off)
       ELSE EnclosingFrom(items, i + 1, off)

\* the reference filter on positions: a position is kept when its depth is
\* greater than the depth of the most recently kept position
RECURSIVE ReferenceKeep(_, _, _, _)
ReferenceKeep(items, idx, k, kept_depth) ==
  IF k > Len(idx) THEN <<>>
  ELSE IF kept_depth < items[idx[k]].depth
       THEN <<idx[k]>> \o ReferenceKeep(items, idx, k + 1, items[idx[k]].depth)
       ELSE ReferenceKeep(items, idx, k + 1, kept_depth)

AtPositions(items, idx, excerpt_id) ==
  [k \in 1 .. Len(idx) |-> in_excerpt(excerpt_id, items[idx[k]])]

ReferenceFilter(items, off, excerpt_id) ==
  AtPositions(items, ReferenceKeep(items, EnclosingFrom(items, 1, off), 1, -1), excerpt_id)

\* C4: the result of lsp_symbols_at_cursor is the result of the reference
\* filter: the items enclosing the cursor, in order, each kept only when
\* deeper than the most recently kept one.
C4_IsReferenceFilter ==
  (Queried /\ at_cursor.some) =>
    at_cursor.val.symbols = ReferenceFilter(Entry.items, cursor.off, cursor.buf)

\* C5: the depths of the result of lsp_symbols_at_cursor increase strictly
\* from each element to the next.
C5_DepthsStrictlyIncrease ==
  (Queried /\ at_cursor.some) =>
    \A k \in 1 .. (Len(at_cursor.val.symbols) - 1) :
      at_cursor.val.symbols[k].depth < at_cursor.val.symbols[k + 1].depth

\* the cached item a result item was made from
Unplaced(sym) ==
  [depth |-> sym.depth, start |-> sym.start, end |-> sym.end, sel |-> sym.sel,
   text |-> sym.text, hl |-> sym.hl]

RECURSIVE IsSubsequence(_, _, _, _)
IsSubsequence(sub, i, full, j) ==
  IF i > Len(sub) THEN TRUE
  ELSE IF j > Len(full) THEN FALSE
  ELSE IF Unplaced(sub[i]) = full[j] THEN IsSubsequence(sub, i + 1, full, j + 1)
  ELSE IsSubsequence(sub, i, full, j + 1)

\* C6: every item lsp_symbols_at_cursor returns encloses the cursor, start
\* and end inclusive, is placed in the cursor's excerpt, and the result is a
\* subsequence of the cached list in its order.
C6_OnlyEnclosingItems ==
  (Queried /\ at_cursor.some) =>
    /\ \A k \in 1 .. Len(at_cursor.val.symbols) :
         /\ Encloses(at_cursor.val.symbols[k], cursor.off)
         /\ at_cursor.val.symbols[k].excerpt = cursor.buf
    /\ IsSubsequence(at_cursor.val.symbols, 1, Entry.items, 1)

\* [A 0..1 depth 0, B 0..0 depth 1, C 1..1 depth 1] with the cursor at 0
\* gives [A, B]: C does not enclose the cursor
C6_Witness ==
  /\ Queried
  /\ cursor = [buf |-> 1, off |-> 0]
  /\ Entry.items = <<Sym(0, 0, 1, 0, <<"s">>), Sym(1, 0, 0, 0, <<"s">>), Sym(1, 1, 1, 1, <<"s">>)>>
  /\ at_cursor = Some([buffer_id |-> 1,
                       symbols |-> <<in_excerpt(1, Sym(0, 0, 1, 0, <<"s">>)),
                                     in_excerpt(1, Sym(1, 0, 0, 0, <<"s">>))>>])

\* the parent of item i in a pre-order list: the nearest earlier item one
\* level up (0 when there is none)
ParentOf(items, i) ==
  LET above == {j \in 1 .. (i - 1) : items[j].depth = items[i].depth - 1}
  IN  IF above = {} THEN 0 ELSE CHOOSE j \in above : \A k \in above : k <= j

\* a pre-order of a forest: children inside their parent and one level
\* below it, siblings disjoint
WellFormed(items) ==
  /\ items # <<>>
  /\ items[1].depth = 0
  /\ \A i \in 2 .. Len(items) : items[i].depth <= items[i - 1].depth + 1
  /\ \A i \in 1 .. Len(items) :
       items[i].depth > 0 =>
         /\ items[ParentOf(items, i)].start <= items[i].start
         /\ items[i].end <= items[ParentOf(items, i)].end
  /\ \A i, j \in 1 .. Len(items) :
       (i < j /\ items[i].depth = items[j].depth /\ ParentOf(items, i) = ParentOf(items, j))
         => items[i].end < items[j].start

\* C7: on a well-formed cached list lsp_symbols_at_cursor returns exactly
\* the items that enclose the cursor, outermost first, at depths 0, 1, .., k.
C7_AncestorChain ==
  (Queried /\ cursor.buf \in multibuffer /\ Entry.present /\ WellFormed(Entry.items)) =>
    /\ at_cursor = Some([buffer_id |-> cursor.buf,
                         symbols |-> AtPositions(Entry.items,
                                                 EnclosingFrom(Entry.items, 1, cursor.off),
                                                 cursor.buf)])
    /\ \A k \in 1 .. Len(at_cursor.val.symbols) : at_cursor.val.symbols[k].depth = k - 1

\* a chain of three levels is returned and a sibling of its innermost item
\* is left out
C7_Witness ==
  /\ Queried
  /\ cursor = [buf |-> 1, off |-> 1]
  /\ Entry.items = <<Sym(0, 0, 1, 0, <<"s">>), Sym(1, 0, 1, 0, <<"s">>),
                     Sym(2, 0, 0, 0, <<"s">>), Sym(2, 1, 1, 1, <<"s">>)>>
  /\ WellFormed(Entry.items)
  /\ at_cursor.some
  /\ Len(at_cursor.val.symbols) = 3
  /\ at_cursor.val.symbols[3] = in_excerpt(1, Sym(2, 1, 1, 1, <<"s">>))

NoItemEncloses == \A i \in 1 .. Len(Entry.items) : ~Encloses(Entry.items[i], cursor.off)

\* C8 as stated: with the entry absent, with the entry empty and with no
\* item enclosing the cursor, lsp_symbols_at_cursor returns the same result,
\* an empty sequence of symbols for the buffer.
C8_SameEmptyResult ==
  (Queried /\ cursor.buf \in multibuffer /\ NoItemEncloses) =>
    at_cursor = Some([buffer_id |-> cursor.buf, symbols |-> <<>>])

\* C8 as amended: lsp_symbols_at_cursor returns no item in any of the three
\* cases; it returns None when the entry is absent or empty, and the buffer
\* id with an empty sequence when the entry has items none of which
\* encloses the cursor.
C8_NoItemsInThreeCases ==
  (Queried /\ cursor.buf \in multibuffer /\ NoItemEncloses) =>
    IF Entry.present /\ Entry.items # <<>>
    THEN at_cursor = Some([buffer_id |-> cursor.buf, symbols |-> <<>>])
    ELSE at_cursor = None

\* the entry is present and empty and the call has returned None
C8_Witness ==
  /\ Queried
  /\ cursor.buf \in multibuffer
  /\ Entry.present
  /\ Entry.items = <<>>
  /\ at_cursor = None

(***************************************************************************)
(* Properties of buffer_outline_items (specification SpecOutline).         *)
(***************************************************************************)
\* the state right after a call of buffer_outline_items for an open buffer
\* whose document_symbols setting selects the server's symbols
OutlineRequested ==
  /\ last.op = "buffer_outline_items"
  /\ last.buf \in multibuffer
  /\ lsp_symbols_enabled(document_symbols, last.buf)

C11_NoProjectSyntaxOutline ==
  ~project =>
    /\ refresh_document_symbols_task = {}
    /\ \A b \in Buffers : requests[b] = 0
    /\ OutlineRequested => outline_task = Outlining(last.buf)

C13_LookupsLeaveRequests ==
  [][(cursor' # cursor \/ last'.op = "lsp_symbols_at_cursor") =>
       /\ requests' = requests
       /\ lsp_document_symbols' = lsp_document_symbols
       /\ refresh_document_symbols_task' = refresh_document_symbols_task]_vars

\* the cursor has moved inside buffer 1 and lsp_symbols_at_cursor has
\* answered from the cache while a later refresh task is still pending
C13_Witness ==
  /\ last.op = "lsp_symbols_at_cursor"
  /\ cursor = [buf |-> 1, off |-> 1]
  /\ at_cursor.some
  /\ Len(at_cursor.val.symbols) = 1
  /\ requests[1] >= 1
  /\ refresh_document_symbols_task # {}

\* the chain of the syntax outline at a cursor
SyntaxChain(c) ==
  Some([buffer_id |-> c.buf,
        symbols |-> AtPositions(syntax_outline(c.buf),
                                EnclosingFrom(syntax_outline(c.buf), 1, c.off), c.buf)])

\* C14: switching the setting makes no request and touches no refresh
\* task; every recomputation of the outline at the cursor (a cursor move,
\* the completion of a wave) takes the syntax chain when the setting of the
\* cursor's buffer is off and the chain of the cached server items when it
\* is on, so off, on, off gives syntax, server, syntax.
C14_SwitchSelectsSource ==
  [][/\ document_symbols' # document_symbols =>
          /\ requests' = requests
          /\ refresh_document_symbols_task' = refresh_document_symbols_task
     /\ (cursor' # cursor \/ events' # events) =>
          outline_symbols_at_cursor' =
            IF document_symbols'[cursor'.buf]
            THEN lsp_symbols_at_cursor(lsp_document_symbols', multibuffer', cursor')
            ELSE SyntaxChain(cursor')]_vars

\* the setting of the cursor's buffer is off again after a wave has cached
\* the server's items for it, and the outline at the moved cursor is the
\* syntax chain
C14_Witness ==
  /\ ~document_symbols[cursor.buf]
  /\ cursor = [buf |-> 1, off |-> 1]
  /\ lsp_document_symbols[1].present
  /\ lsp_document_symbols[1].items # <<>>
  /\ events >= 1
  /\ outline_symbols_at_cursor = SyntaxChain(cursor)

(***************************************************************************)
(* Properties of the debounce and of the completion (specification Spec).  *)
(***************************************************************************)
\* C15: of the calls of refresh_document_symbols that fall inside each
\* other's debounce window only the last has a live task: while its timer
\* runs no request has been made since the first of the calls, and once the
\* timer has fired exactly one request has been made for each of its
\* buffers and none for the others.
C15_OneFetchPerBurst ==
  \A t \in refresh_document_symbols_task : \A b \in Buffers :
    requests[b] = t.base[b] + (IF t.phase = "inflight" /\ b \in DOMAIN t.results THEN 1 ELSE 0)

\* two calls fell inside one debounce window and the timer of the second
\* has fired: one request for buffer 1 since the first call
C15_Witness ==
  \E t \in refresh_document_symbols_task :
    /\ t.burst = 2
    /\ t.phase = "inflight"
    /\ 1 \in DOMAIN t.results
    /\ requests[1] = t.base[1] + 1

\* C16: a request waiting for the debounce for an open buffer whose setting
\* is on is not lost by any step: after the step it has been made or it is
\* still waiting in a debouncing task.
C16_PendingRequestKept ==
  [][\A t \in refresh_document_symbols_task : \A a \in DOMAIN t.results :
       (t.phase = "debounce" /\ a \in multibuffer /\ document_symbols[a]) =>
         \/ requests'[a] = requests[a] + 1
         \/ \E u \in refresh_document_symbols_task' :
              u.phase = "debounce" /\ a \in DOMAIN u.results]_vars

\* C17: the result of a fetch in flight for a buffer is not discarded by
\* any step: after the step its task is still alive, or the task has
\* written the buffer's entry, or a newer task covers the same buffer.
C17_InflightResultKept ==
  [][\A t \in refresh_document_symbols_task : \A a \in DOMAIN t.results :
       t.phase = "inflight" =>
         \/ \E u \in refresh_document_symbols_task' : u.wave = t.wave
         \/ entry_wave'[a] = t.wave
         \/ \E u \in refresh_document_symbols_task' : a \in DOMAIN u.results]_vars

\* the values for_buffer may take
Filters == {None} \cup {Some(b) : b \in Buffers}

\* C18: a task is spawned for the open buffers that match a filter and have
\* the setting on; the requests made change only when a debounce elapses,
\* and then by exactly one for each buffer of the task and by none for the
\* others, all in that one step, before any response has been awaited.
C18_OneFetchPerBuffer ==
  [][/\ \A u \in refresh_document_symbols_task' :
          u.wave = waves + 1 =>
            \E f \in Filters :
              DOMAIN u.results = {b \in multibuffer : matches_filter(f, b) /\ document_symbols[b]}
     /\ requests' # requests =>
          \E t \in refresh_document_symbols_task, u \in refresh_document_symbols_task' :
            /\ t.phase = "debounce"
            /\ u.wave = t.wave
            /\ u.phase = "inflight"
            /\ \A b \in DOMAIN u.results : ~u.results[b].done
            /\ \A b \in Buffers :
                 requests'[b] = requests[b] + (IF b \in DOMAIN t.results THEN 1 ELSE 0)
     /\ \A t \in refresh_document_symbols_task, u \in refresh_document_symbols_task' :
          (t.phase = "debounce" /\ u.wave = t.wave /\ u.phase = "inflight") =>
            requests' # requests]_vars

\* the debounce of a refresh of both buffers has elapsed: one request for
\* each, though buffer 1 is shown in two excerpts, and no response yet
C18_Witness ==
  \E t \in refresh_document_symbols_task :
    /\ t.phase = "inflight"
    /\ t.buffers = <<1, 2>>
    /\ \A b \in Buffers : ~t.results[b].done
    /\ requests = [b \in Buffers |-> 1]

\* C19: every cache entry is the whole item sequence of one response, with
\* or without the highlights of the buffer: never items of two responses,
\* never a part of a response.
C19_EntryIsOneFetchResult ==
  \A b \in Buffers :
    lsp_document_symbols[b].present =>
      \E r \in ServerResponses :
        \/ lsp_document_symbols[b].items = r
        \/ lsp_document_symbols[b].items = apply_syntax_highlights(r, snapshot_of(b))

\* the entry of buffer 1 has been written by two waves and holds the two
\* items of the second
C19_Witness ==
  /\ events = 2
  /\ entry_wave[1] = 2
  /\ lsp_document_symbols[1].present
  /\ Len(lsp_document_symbols[1].items) = 2

\* C20: a step writes the cache exactly when it emits DocumentSymbolsChanged,
\* once, and the outline at the cursor after such a step is the one computed
\* from the cache as written.
C20_WriteThenRefreshThenEmit ==
  [][/\ (entry_wave' # entry_wave \/ lsp_document_symbols' # lsp_document_symbols) =>
          /\ events' = events + 1
          /\ outline_symbols_at_cursor' =
               IF cursor.buf \notin multibuffer THEN None
               ELSE IF document_symbols[cursor.buf]
               THEN lsp_symbols_at_cursor(lsp_document_symbols', multibuffer, cursor)
               ELSE SyntaxChain(cursor)
     /\ events' # events => entry_wave' # entry_wave]_vars

\* the first wave has written two items for buffer 1 and the outline at the
\* cursor already holds the outer one
C20_Witness ==
  /\ last.op = "wave_completes"
  /\ events = 1
  /\ cursor.buf = 1
  /\ Len(lsp_document_symbols[1].items) = 2
  /\ outline_symbols_at_cursor.some
  /\ Len(outline_symbols_at_cursor.val.symbols) = 1

(***************************************************************************)
(* Who writes the cache (specification SpecCallers).                       *)
(***************************************************************************)
\* C21: a step changes the cache only when it is the completion of a refresh
\* task; a call of buffer_outline_items, the resolution of the task it
\* returned, a call of lsp_symbols_at_cursor and a cursor move (which asks
\* uses_lsp_document_symbols) leave every cache entry as it was.
C21_OnlyCompletionWrites ==
  [][/\ lsp_document_symbols' # lsp_document_symbols => last'.op = "wave_completes"
     /\ (\/ last'.op \in {"buffer_outline_items", "lsp_symbols_at_cursor"}
         \/ outline_task' # outline_task
         \/ cursor' # cursor) =>
          lsp_document_symbols' = lsp_document_symbols]_vars

\* buffer_outline_items has fetched for a buffer without an entry, the fetch
\* has resolved with items, and the buffer still has no entry
C21_Witness ==
  /\ outline_task.state = "ready"
  /\ outline_task.buf \in multibuffer
  /\ document_symbols[outline_task.buf]
  /\ outline_task.items # <<>>
  /\ requests[outline_task.buf] >= 1
  /\ lsp_document_symbols[outline_task.buf] = Absent

(***************************************************************************)
(* Progress of a wave (specification SpecLive).                            *)
(***************************************************************************)
\* wave w has just completed: each of its buffers holds the wave's result,
\* the outline at the cursor is the one computed from the written cache and
\* DocumentSymbolsChanged has been emitted
Completed(w) ==
  /\ last.op = "wave_completes"
  /\ last.wave.wave = w
  /\ \A b \in DOMAIN last.wave.results :
       /\ entry_wave[b] = w
       /\ lsp_document_symbols[b] = Present(highlighted_results(last.wave)[b])
  /\ outline_symbols_at_cursor =
       IF document_symbols[cursor.buf]
       THEN lsp_symbols_at_cursor(lsp_document_symbols, multibuffer, cursor)
       ELSE SyntaxChain(cursor)
  /\ events >= 1

\* C22: once a refresh call has spawned a task for a non-empty set of
\* buffers, then, unless a later call spawns another task, the task
\* completes: the cache holds its result for each of its buffers, the
\* outline at the cursor has been recomputed and the event emitted.
C22_WaveDelivered ==
  \A w \in 1 .. MaxWaves :
    (\E t \in refresh_document_symbols_task : t.wave = w) ~> (waves > w \/ Completed(w))

\* the first wave, spawned for both buffers, has completed
C22_Witness ==
  /\ waves = 1
  /\ Completed(1)
  /\ DOMAIN last.wave.results = Buffers
  /\ refresh_document_symbols_task = {}

(***************************************************************************)
(* What highlights_from_buffer returns (specification SpecHighlights).     *)
(***************************************************************************)
\* word stands at offset p of the text
Occurs(text, word, p) ==
  /\ p + Len(word) <= Len(text)
  /\ SubSeq(text, p + 1, p + Len(word)) = word

\* the offsets at which the name of the call stands inside the window of the
\* verbatim phase
VerbatimOccurrences(c) ==
  LET from == Max(Max(c.selection_start - Len(c.name), 0), c.range_start)
      to == Min(c.selection_start + 2 * Len(c.name), c.range_end)
  IN  {p \in from .. (to - Len(c.name)) : Occurs(c.snapshot.text, c.name, p)}

\* the words of the name found in order in the symbol range, each searched
\* after the end of the word found before it: [i, p, len] for word i found
\* at offset p
RECURSIVE MatchedWords(_, _, _, _)
MatchedWords(c, words, i, from) ==
  IF i > Len(words) THEN {}
  ELSE LET hits == {p \in from .. (c.range_end - Len(words[i])) :
                      Occurs(c.snapshot.text, words[i], p)}
       IN  IF hits = {} THEN MatchedWords(c, words, i + 1, from)
           ELSE {[i |-> i, p |-> Least(hits), len |-> Len(words[i])]} \cup
                MatchedWords(c, words, i + 1, Least(hits) + Len(words[i]))

WordsFound(c) == MatchedWords(c, split_whitespace(c.name), 1, c.range_start)

\* a byte of p .. p + len carries a style of the theme
Styled(c, p, len) == \E k \in (p + 1) .. (p + len) : c.snapshot.style[k] # 0

\* the verbatim occurrence, or a found word, carries a style
StyledMatch(c) ==
  \/ /\ VerbatimOccurrences(c) # {}
     /\ Styled(c, Least(VerbatimOccurrences(c)), Len(c.name))
  \/ \E m \in WordsFound(c) : Styled(c, m.p, m.len)

\* C23 as stated: no highlights are returned only when the name is empty or
\* when there is neither a verbatim occurrence nor a found word; whenever
\* the name is matched, a sequence is returned, also for unstyled text.
C23_NoneOnlyWithoutMatch ==
  highlight_call.phase = "done" =>
    (~highlight_call.result.some <=>
       \/ highlight_call.name = <<>>
       \/ /\ VerbatimOccurrences(highlight_call) = {}
          /\ WordsFound(highlight_call) = {})

\* C23: highlights are returned exactly when the name is not empty and the
\* verbatim occurrence or at least one found word of the name carries a
\* style; a returned sequence is never empty.  With an empty name, with
\* nothing matched, and with a match none of whose bytes is styled, no
\* highlights are returned.
C23_SomeIffStyledMatch ==
  highlight_call.phase = "done" =>
    /\ highlight_call.result.some <=>
         (highlight_call.name # <<>> /\ StyledMatch(highlight_call))
    /\ highlight_call.result.some => highlight_call.result.val # <<>>

\* a partial match: the name is not in the window, two of its words are
\* found, one of them unstyled, and the styled one gives the sequence
C23_Witness ==
  /\ highlight_call.phase = "done"
  /\ VerbatimOccurrences(highlight_call) = {}
  /\ Cardinality(WordsFound(highlight_call)) = 2
  /\ \E m \in WordsFound(highlight_call) : ~Styled(highlight_call, m.p, m.len)
  /\ highlight_call.result.some
  /\ Len(highlight_call.result.val) = 1

\* C24: with the empty name, whatever the text, the symbol range and the
\* selection start, no highlights are returned and the snapshot is not
\* read; and when the name is neither in the window of the verbatim phase
\* nor has a word in the symbol range, no highlights are returned.
C24_NoneWithoutNameOrMatch ==
  highlight_call.phase = "done" =>
    /\ highlight_call.name = <<>> =>
         /\ ~highlight_call.result.some
         /\ highlight_call.reads = <<>>
    /\ (VerbatimOccurrences(highlight_call) = {} /\ WordsFound(highlight_call) = {}) =>
         ~highlight_call.result.some

\* the empty name was looked for in a non-empty symbol range of styled text
C24_Witness ==
  /\ highlight_call.phase = "done"
  /\ highlight_call.name = <<>>
  /\ highlight_call.range_start < highlight_call.range_end
  /\ Styled(highlight_call, highlight_call.range_start,
            highlight_call.range_end - highlight_call.range_start)
  /\ ~highlight_call.result.some

(***************************************************************************)
(* The normalised item list (specification SpecNormalize).                 *)
(***************************************************************************)
\* the nesting level of a symbol of a nested response
RECURSIVE Level(_, _)
Level(response, i) ==
  IF response.parent[i] = 0 THEN 0 ELSE 1 + Level(response, response.parent[i])

\* the ancestors of a symbol of a nested response
RECURSIVE Ancestors(_, _)
Ancestors(response, i) ==
  IF response.parent[i] = 0 THEN {}
  ELSE {response.parent[i]} \cup Ancestors(response, response.parent[i])

\* where the symbol stands in the item list
PlaceOf(items, i) == CHOOSE j \in 1 .. Len(items) : items[j].id = i

\* C25: the item list made of a response holds every symbol once; in the
\* list of a nested response every symbol stands after all its ancestors,
\* a top-level symbol has depth 0, a child has the depth of its parent plus
\* one, and between a parent and its child every item is deeper than the
\* parent; a flat response gives items of depth 0 in the order sent.
C25_FlatPreorderWithDepths ==
  symbols_response.phase = "done" =>
    LET response == symbols_response.response
        items == symbols_response.items
    IN  /\ Len(items) = response.n
        /\ {items[j].id : j \in 1 .. Len(items)} = 1 .. response.n
        /\ response.shape = "flat" =>
             \A j \in 1 .. Len(items) : items[j] = [depth |-> 0, id |-> j]
        /\ response.shape = "nested" =>
             \A i \in 1 .. response.n :
               /\ items[PlaceOf(items, i)].depth = Level(response, i)
               /\ \A a \in Ancestors(response, i) : PlaceOf(items, a) < PlaceOf(items, i)
               /\ response.parent[i] # 0 =>
                    /\ items[PlaceOf(items, i)].depth =
                         items[PlaceOf(items, response.parent[i])].depth + 1
                    /\ \A j \in (PlaceOf(items, response.parent[i]) + 1) .. PlaceOf(items, i) :
                         items[j].depth > items[PlaceOf(items, response.parent[i])].depth

\* a nested response of three levels in which a top-level symbol follows a
\* grandchild has been normalised
C25_Witness ==
  /\ symbols_response.phase = "done"
  /\ symbols_response.response.shape = "nested"
  /\ \E i \in 1 .. symbols_response.response.n : Level(symbols_response.response, i) = 2
  /\ Len(symbols_response.items) >= 4
  /\ symbols_response.items[Len(symbols_response.items)].depth = 0
  /\ symbols_response.items[Len(symbols_response.items) - 1].depth = 2

(***************************************************************************)
(* The migration of always_allow_tool_actions (specification SpecMigrate). *)
(***************************************************************************)
\* the value at a path of keys, Missing when a key is missing or a value on
\* the way is no object
RECURSIVE At(_, _)
At(value, path) ==
  IF path = <<>> THEN value
  ELSE IF value.t = "object" /\ Head(path) \in DOMAIN value.v
       THEN At(value.v[Head(path)], Tail(path))
       ELSE Missing

\* the mode the migration gives each agent server
ServerModes == [claude |-> "bypassPermissions", codex |-> "full-access"]

\* C26: when agent.always_allow_tool_actions is true, after migrate_one the
\* key is gone, agent.tool_permissions is an object whose "default" is the
\* user's "default" or "default_mode" if there was one and "allow"
\* otherwise, and each of agent_servers.claude and agent_servers.codex has
\* the default_mode it had, or "bypassPermissions" and "full-access" when
\* it had none; when the value is false, null or absent, the key is gone
\* and neither a default nor anything under agent_servers is added.
C26_AlwaysAllowMigrated ==
  settings_file.phase = "done" =>
    LET before == Object(settings_file.obj)
        after == Object(settings_file.migrated)
        always_allow == At(before, <<"agent", "always_allow_tool_actions">>)
        old_permissions == <<"agent", "tool_permissions">>
    IN  /\ always_allow = Bool(TRUE) =>
             /\ At(after, <<"agent", "always_allow_tool_actions">>) = Missing
             /\ At(after, old_permissions).t = "object"
             /\ At(after, old_permissions \o <<"default">>) =
                  IF At(before, old_permissions \o <<"default">>) # Missing
                  THEN At(before, old_permissions \o <<"default">>)
                  ELSE IF At(before, old_permissions \o <<"default_mode">>) # Missing
                       THEN At(before, old_permissions \o <<"default_mode">>)
                       ELSE Str("allow")
             /\ \A server \in DOMAIN ServerModes :
                  At(after, <<"agent_servers", server, "default_mode">>) =
                    IF At(before, <<"agent_servers", server, "default_mode">>) # Missing
                    THEN At(before, <<"agent_servers", server, "default_mode">>)
                    ELSE Str(ServerModes[server])
        /\ (At(before, <<"agent">>).t = "object" /\ always_allow \in {Bool(FALSE), Null, Missing}) =>
             /\ At(after, <<"agent", "always_allow_tool_actions">>) = Missing
             /\ At(after, <<"agent_servers">>) = At(before, <<"agent_servers">>)
             /\ At(after, old_permissions \o <<"default">>) # Missing =>
                  \/ At(before, old_permissions \o <<"default">>) # Missing
                  \/ At(before, old_permissions \o <<"default_mode">>) # Missing

(***************************************************************************)
(* No retry (specification Spec).                                          *)
(***************************************************************************)
\* C27: the fetches made for a buffer never exceed the refresh calls that
\* spawned a task with the buffer; a step makes a fetch only as the debounce
\* of a live task ends; and once a wave has completed, with failed fetches
\* or without, no task is left and no fetch is made until a refresh call
\* spawns a task.
C27_NoRetry ==
  /\ [](\A b \in Buffers : requests[b] <= included[b])
  /\ [][/\ requests' # requests =>
             \E t \in refresh_document_symbols_task :
               /\ t.phase = "debounce"
               /\ \A b \in Buffers : requests'[b] = requests[b] + Count(t.buffers, b)
        /\ (refresh_document_symbols_task = {} /\ waves' = waves) =>
             (requests' = requests /\ refresh_document_symbols_task' = {})
        /\ last'.op = "wave_completes" =>
             (refresh_document_symbols_task' = {} /\ requests' = requests)]_vars

\* a wave for both buffers has completed with a failed fetch: one fetch was
\* made for each buffer and no task is left
C27_Witness ==
  /\ last.op = "wave_completes"
  /\ DOMAIN last.wave.results = Buffers
  /\ \E b \in Buffers : ~last.wave.results[b].ok
  /\ refresh_document_symbols_task = {}
  /\ \A b \in Buffers : requests[b] = 1 /\ included[b] = 1

(***************************************************************************)
(* One refresh task (specification Spec).                                  *)
(***************************************************************************)
\* C28: the editor holds at most one refresh task, the task of the newest
\* spawning call; a call that spawns leaves its own task alone in the field;
\* and a fetch is made, a fetch resolves and a cache entry is written only
\* for the newest task, so a replaced task does nothing any more and no
\* task waits behind another.
C28_OneTaskNoQueue ==
  /\ [](/\ Cardinality(refresh_document_symbols_task) <= 1
        /\ \A t \in refresh_document_symbols_task : t.wave = waves)
  /\ [][/\ waves' # waves =>
             /\ waves' = waves + 1
             /\ \E t \in refresh_document_symbols_task' :
                  /\ refresh_document_symbols_task' = {t}
                  /\ t.wave = waves'
                  /\ t.phase = "debounce"
        /\ requests' # requests =>
             \E t \in refresh_document_symbols_task : t.wave = waves /\ t.phase = "debounce"
        /\ \A b \in Buffers :
             entry_wave'[b] # entry_wave[b] => (entry_wave'[b] = waves /\ waves' = waves)
        /\ \A t \in refresh_document_symbols_task' :
             t \notin refresh_document_symbols_task => t.wave = waves']_vars

\* a second call has replaced a task whose fetches were in flight: the new
\* task waits for its timer, nothing of the first wave has been written
C28_Witness ==
  /\ waves = 2
  /\ \E t \in refresh_document_symbols_task :
       /\ refresh_document_symbols_task = {t}
       /\ t.wave = 2
       /\ t.phase = "debounce"
  /\ \A b \in Buffers : requests[b] = 1 /\ entry_wave[b] = 0
  /\ events = 0

(***************************************************************************)
(* The early returns of refresh_document_symbols (specification Spec).     *)
(***************************************************************************)
\* C29: a call of refresh_document_symbols in an editor that is not in full
\* mode or has no project, or for which no buffer is eligible, changes
\* neither the cache, nor the outline at the cursor, nor the refresh task
\* in the field, makes no request and emits no event; a task is spawned
\* only in full mode, with a project and with an eligible buffer.
C29_EarlyReturnChangesNothing ==
  [][/\ last'.op = "refresh_noop" =>
          /\ \/ ~mode_full
             \/ ~project
             \/ \E f \in {None} \cup {Some(b) : b \in Buffers} : buffers_to_query(f) = <<>>
          /\ lsp_document_symbols' = lsp_document_symbols
          /\ outline_symbols_at_cursor' = outline_symbols_at_cursor
          /\ refresh_document_symbols_task' = refresh_document_symbols_task
          /\ requests' = requests
          /\ events' = events
          /\ waves' = waves
     /\ waves' # waves =>
          /\ mode_full
          /\ project
          /\ \E b \in multibuffer : document_symbols[b]]_vars

\* a call found no eligible buffer while the fetches of an earlier call's
\* wave were in flight, one of them resolved: the wave is still there
C29_Witness ==
  /\ last.op = "refresh_noop"
  /\ mode_full
  /\ project
  /\ \E t \in refresh_document_symbols_task :
       /\ t.phase = "inflight"
       /\ \E b \in DOMAIN t.results : t.results[b].done
       /\ \E b \in DOMAIN t.results : ~t.results[b].done

(***************************************************************************)
(* The wave writes at once (specification Spec).                           *)
(***************************************************************************)
\* C30: while a task is alive none of the entries of the cache is of its
\* wave; a step that writes an entry is taken by a task all of whose fetches
\* have resolved, and writes the entries of all the buffers of the wave, and
\* of no other buffer, and emits the event, in that one step.  So a wave
\* with a fetch that has not resolved has written nothing and emitted
\* nothing.
C30_WaveWritesAtOnce ==
  /\ [](\A t \in refresh_document_symbols_task : \A b \in Buffers : entry_wave[b] # t.wave)
  /\ [][(entry_wave' # entry_wave \/ lsp_document_symbols' # lsp_document_symbols
           \/ events' # events) =>
          \E t \in refresh_document_symbols_task :
            /\ t.phase = "inflight"
            /\ \A b \in DOMAIN t.results : t.results[b].done
            /\ \A b \in Buffers :
                 IF b \in DOMAIN t.results
                 THEN /\ entry_wave'[b] = t.wave
                      /\ lsp_document_symbols'[b] = Present(highlighted_results(t)[b])
                 ELSE /\ entry_wave'[b] = entry_wave[b]
                      /\ lsp_document_symbols'[b] = lsp_document_symbols[b]
            /\ events' = events + 1]_vars

\* the fetch of one buffer of a wave has resolved with items, the fetch of
\* the other has not: neither entry is written, no event is emitted
C30_Witness ==
  /\ events = 0
  /\ \E t \in refresh_document_symbols_task :
       /\ t.phase = "inflight"
       /\ DOMAIN t.results = Buffers
       /\ \E b \in Buffers :
            /\ t.results[b].done /\ t.results[b].ok /\ t.results[b].items # <<>>
            /\ lsp_document_symbols[b] = Absent
       /\ \E b \in Buffers : ~t.results[b].done
       /\ \A b \in Buffers : entry_wave[b] = 0

(***************************************************************************)
(* When the buffers of a wave are chosen (specification Spec).             *)
(***************************************************************************)
\* C31: the buffers of a task are those the setting and the filter selected
\* when refresh_document_symbols was called; they stay the task's buffers
\* whatever happens to the settings; when the timer fires a fetch is made
\* for each of them, and when the wave completes the entry of each of them
\* is written, also for a buffer whose setting has been switched off since
\* the call.
C31_SelectedAtCall ==
  [][/\ waves' # waves =>
          \E t \in refresh_document_symbols_task' :
            /\ t.wave = waves'
            /\ \E f \in {None} \cup {Some(b) : b \in Buffers} :
                 /\ t.buffers = buffers_to_query(f)
                 /\ \A b \in Range(t.buffers) :
                      matches_filter(f, b) /\ document_symbols[b] /\ b \in multibuffer
            /\ DOMAIN t.results = Range(t.buffers)
     /\ \A t \in refresh_document_symbols_task : \A u \in refresh_document_symbols_task' :
          u.wave = t.wave =>
            /\ u.buffers = t.buffers
            /\ DOMAIN u.results = DOMAIN t.results
            /\ (t.phase = "debounce" /\ u.phase = "inflight") =>
                 \A b \in Range(t.buffers) : requests'[b] = requests[b] + 1
     /\ last'.op = "wave_completes" =>
          \A b \in Range(last'.wave.buffers) :
            /\ entry_wave'[b] = last'.wave.wave
            /\ lsp_document_symbols'[b].present]_vars

\* a wave has completed and written the entry of a buffer whose setting was
\* switched off after the call, the fetch having been made for it
C31_Witness ==
  /\ last.op = "wave_completes"
  /\ \E b \in Range(last.wave.buffers) :
       /\ ~document_symbols[b]
       /\ b \in multibuffer
       /\ requests[b] = 1
       /\ entry_wave[b] = last.wave.wave
       /\ lsp_document_symbols[b].present
       /\ lsp_document_symbols[b].items # <<>>

(***************************************************************************)
(* The two phases of highlights_from_buffer (specification SpecHighlights). *)
(***************************************************************************)
\* the elements of a sequence
Elements(seq) == {seq[i] : i \in 1 .. Len(seq)}

\* the styled stretches of the bytes p .. p + len of the text, relative to
\* p: the longest runs of one style of the theme inside the span
WholeRuns(c, p, len) ==
  {r \in [start : 0 .. len, end : 0 .. len, style : Styles] :
     /\ r.start < r.end
     /\ r.style # 0
     /\ \A k \in (p + r.start + 1) .. (p + r.end) : c.snapshot.style[k] = r.style
     /\ r.start = 0 \/ c.snapshot.style[p + r.start] # r.style
     /\ r.end = len \/ c.snapshot.style[p + r.end + 1] # r.style}

\* the window of the verbatim phase
WindowOf(c) ==
  [s |-> Max(Max(c.selection_start - Len(c.name), 0), c.range_start),
   e |-> Min(c.selection_start + 2 * Len(c.name), c.range_end)]

\* C32: with a name that is not empty, the first read is that of the window
\* when the window is not empty, and nothing is searched outside it in the
\* verbatim phase; when the name occurs in the window, the chunks of its
\* leftmost occurrence there are read, and when one of them has a style the
\* highlights are the styled runs of exactly that span, relative to the
\* start of the name, and the symbol range is not read.
C32_VerbatimInWindow ==
  (highlight_call.phase = "done" /\ highlight_call.name # <<>>) =>
    LET c == highlight_call
        occurrences == VerbatimOccurrences(c)
        symbol_range == [fn |-> "text_for_range", s |-> c.range_start, e |-> c.range_end]
    IN  /\ WindowOf(c).s >= WindowOf(c).e => c.reads[1] = symbol_range
        /\ WindowOf(c).s < WindowOf(c).e =>
             /\ c.reads[1] = [fn |-> "text_for_range", s |-> WindowOf(c).s, e |-> WindowOf(c).e]
             /\ occurrences = {} => c.reads[2] = symbol_range
        /\ occurrences # {} =>
             /\ c.reads[2] = [fn |-> "chunks", s |-> Least(occurrences),
                              e |-> Least(occurrences) + Len(c.name)]
             /\ Styled(c, Least(occurrences), Len(c.name)) =>
                  /\ c.result.some
                  /\ Elements(c.result.val) = WholeRuns(c, Least(occurrences), Len(c.name))
                  /\ Len(c.result.val) = Cardinality(WholeRuns(c, Least(occurrences), Len(c.name)))
                  /\ Len(c.reads) = 2

\* the name stands at the selection start and also before it in the window,
\* the two spans being styled differently: the span before it is taken
C32_Witness ==
  /\ highlight_call.phase = "done"
  /\ highlight_call.selection_start \in VerbatimOccurrences(highlight_call)
  /\ Least(VerbatimOccurrences(highlight_call)) < highlight_call.selection_start
  /\ Styled(highlight_call, Least(VerbatimOccurrences(highlight_call)), Len(highlight_call.name))
  /\ WholeRuns(highlight_call, highlight_call.selection_start, Len(highlight_call.name)) #
       WholeRuns(highlight_call, Least(VerbatimOccurrences(highlight_call)), Len(highlight_call.name))
  /\ highlight_call.result.some
  /\ Elements(highlight_call.result.val) =
       WholeRuns(highlight_call, Least(VerbatimOccurrences(highlight_call)), Len(highlight_call.name))

\* the word fallback ran: the name is not empty and the verbatim phase did
\* not return
FallbackRan(c) ==
  /\ c.phase = "done"
  /\ c.name # <<>>
  /\ ~(VerbatimOccurrences(c) # {} /\ Styled(c, Least(VerbatimOccurrences(c)), Len(c.name)))

\* the reads of the word fallback after that of the symbol range
FallbackReads(c) ==
  LET at == CHOOSE i \in 1 .. Len(c.reads) :
              /\ c.reads[i].fn = "text_for_range"
              /\ \A j \in (i + 1) .. Len(c.reads) : c.reads[j].fn = "chunks"
  IN  SubSeq(c.reads, at + 1, Len(c.reads))

\* the offset in the name of its i-th word
WordStart(name, i) ==
  LET starts == {j \in 0 .. (Len(name) - 1) :
                   ~IsWhitespace(name[j + 1]) /\ (j = 0 \/ IsWhitespace(name[j]))}
  IN  CHOOSE j \in starts : Cardinality({k \in starts : k < j}) = i - 1

\* the styled runs of the found words, each at the offset of its word in
\* the name
WordHighlightsOf(c, found) ==
  UNION {{[start |-> r.start + WordStart(c.name, m.i), end |-> r.end + WordStart(c.name, m.i),
           style |-> r.style] : r \in WholeRuns(c, m.p, m.len)} : m \in found}

\* C33: in the word fallback the chunks read are those of the words found,
\* each word searched from the end of the word found before it, a word that
\* is not found changing nothing for the words after it; the spans read lie
\* in the symbol range, each starts where the one before it ends or later;
\* and the highlights are the styled runs of the found words, each at the
\* offset of its word in the name.
C33_WordsInOrder ==
  FallbackRan(highlight_call) =>
    LET c == highlight_call
        spans == FallbackReads(c)
        found == WordsFound(c)
        styled == WordHighlightsOf(c, found)
    IN  /\ Elements(spans) = {[fn |-> "chunks", s |-> m.p, e |-> m.p + m.len] : m \in found}
        /\ Len(spans) = Cardinality(found)
        /\ \A k \in 1 .. Len(spans) :
             /\ c.range_start <= spans[k].s
             /\ spans[k].s < spans[k].e
             /\ spans[k].e <= c.range_end
             /\ k < Len(spans) => spans[k].e <= spans[k + 1].s
        /\ c.result.some <=> styled # {}
        /\ c.result.some =>
             /\ Elements(c.result.val) = styled
             /\ Len(c.result.val) = Cardinality(styled)

\* the first word of the name is not in the symbol range, the second is and
\* gives the highlights, at its offset in the name
C33_Witness ==
  /\ FallbackRan(highlight_call)
  /\ Len(split_whitespace(highlight_call.name)) = 2
  /\ {m.i : m \in WordsFound(highlight_call)} = {2}
  /\ highlight_call.result.some
  /\ highlight_call.result.val[1].start = WordStart(highlight_call.name, 2)
  /\ highlight_call.result.val[1].start > 0

\* C34: the ranges of a returned sequence lie in 0 .. Len(name), each
\* starts where the one before it ends or later; and for every span whose
\* chunks the call read, highlights_for_range gives no range that ends
\* behind the length of the span, also when the last chunk of the span
\* reaches beyond it.
C34_RangesInNameInOrder ==
  highlight_call.phase = "done" =>
    LET c == highlight_call
    IN  /\ c.result.some =>
             \A k \in 1 .. Len(c.result.val) :
               /\ 0 <= c.result.val[k].start
               /\ c.result.val[k].start < c.result.val[k].end
               /\ c.result.val[k].end <= Len(c.name)
               /\ k < Len(c.result.val) => c.result.val[k].end <= c.result.val[k + 1].start
        /\ \A k \in 1 .. Len(c.reads) :
             c.reads[k].fn = "chunks" =>
               \A text_cursor_start \in 0 .. 1 :
                 LET highlights == highlights_for_range(text_cursor_start, c.reads[k].s,
                                                        c.reads[k].e, c.snapshot)
                 IN  highlights.some =>
                       \A j \in 1 .. Len(highlights.val) :
                         /\ text_cursor_start <= highlights.val[j].start
                         /\ highlights.val[j].end <=
                              text_cursor_start + (c.reads[k].e - c.reads[k].s)

\* the name was found in the window and the styled chunk that ends its
\* span reaches beyond the end of the span
C34_Witness ==
  /\ highlight_call.phase = "done"
  /\ highlight_call.result.some
  /\ VerbatimOccurrences(highlight_call) # {}
  /\ LET span_end == Least(VerbatimOccurrences(highlight_call)) + Len(highlight_call.name)
     IN  /\ span_end < Len(highlight_call.snapshot.text)
         /\ highlight_call.snapshot.style[span_end] # 0
         /\ highlight_call.snapshot.style[span_end + 1] = highlight_call.snapshot.style[span_end]
         /\ highlight_call.result.val[Len(highlight_call.result.val)].end = Len(highlight_call.name)

(***************************************************************************)
(* The frame of apply_syntax_highlights (specification SpecApply).         *)
(***************************************************************************)
\* the call of highlights_from_buffer that apply_syntax_highlights makes for
\* an item
LocatorCall(item, snapshot) ==
  [name |-> item.text, snapshot |-> snapshot,
   range_start |-> Min(item.start, Len(snapshot.text)),
   range_end |-> Min(item.end, Len(snapshot.text)),
   selection_start |-> Min(item.sel, Len(snapshot.text))]

\* the locator returns highlights for the item
Located(item, snapshot) ==
  item.text # <<>> /\ StyledMatch(LocatorCall(item, snapshot))

\* C35: apply_syntax_highlights returns as many items as it got, in their
\* order, each with the text, depth, range and name range it had; an item
\* for which the locator returns no highlights (empty name, name not found,
\* no styled chunk) has the highlight ranges it had before; and all of them
\* are the items of the cache entry.
C35_OnlyHighlightsChange ==
  items_call.phase = "done" =>
    /\ Len(items_call.highlighted) = Len(items_call.items)
    /\ \A i \in 1 .. Len(items_call.items) :
         /\ [items_call.highlighted[i] EXCEPT !.hl = items_call.items[i].hl] = items_call.items[i]
         /\ ~Located(items_call.items[i], items_call.snapshot) =>
              items_call.highlighted[i] = items_call.items[i]
    /\ items_call.cached.present
    /\ items_call.cached.items = items_call.highlighted

\* a list of two items that had highlights: the locator finds none for the
\* first, which keeps them, and finds some for the second
C35_Witness ==
  /\ items_call.phase = "done"
  /\ Len(items_call.items) = 2
  /\ items_call.items[1].hl # <<>>
  /\ ~Located(items_call.items[1], items_call.snapshot)
  /\ items_call.cached.items[1].hl = items_call.items[1].hl
  /\ items_call.items[2].hl # <<>>
  /\ Located(items_call.items[2], items_call.snapshot)
  /\ items_call.cached.items[2].hl # items_call.items[2].hl

(***************************************************************************)
(* The rename of default_mode (specification SpecMigrate).                 *)
(***************************************************************************)
\* the places of the settings file that hold the rules of tool permissions:
\* those of the agent and its profile, and under each the rules of a tool
PermissionPlaces ==
  LET of_agent == {<<"agent", "tool_permissions">>,
                   <<"agent", "profiles", "write", "tool_permissions">>}
  IN  of_agent \cup {place \o <<"tools", "terminal">> : place \in of_agent}

\* the agents of the settings file: the agent and its profile
AgentPlaces == {<<"agent">>, <<"agent", "profiles", "write">>}

\* C36: after migrate_one no tool_permissions object of the agent or of a
\* profile, and no rules object under their "tools", has the key
\* "default_mode"; where there was one, "default" holds the value "default"
\* had, or that of "default_mode" when there was no "default"; and an
\* always_allow_tool_actions that is neither a boolean nor null is where it
\* was, unchanged.
C36_DefaultModeRenamed ==
  settings_file.phase = "done" =>
    LET before == Object(settings_file.obj)
        after == Object(settings_file.migrated)
    IN  /\ \A place \in PermissionPlaces :
             /\ At(after, place \o <<"default_mode">>) = Missing
             /\ At(before, place \o <<"default_mode">>) # Missing =>
                  At(after, place \o <<"default">>) =
                    IF At(before, place \o <<"default">>) # Missing
                    THEN At(before, place \o <<"default">>)
                    ELSE At(before, place \o <<"default_mode">>)
        /\ \A agent \in AgentPlaces :
             At(before, agent \o <<"always_allow_tool_actions">>).t \notin {"missing", "bool", "null"} =>
               At(after, agent \o <<"always_allow_tool_actions">>) =
                 At(before, agent \o <<"always_allow_tool_actions">>)

\* a file with "default" and "default_mode" in the tool permissions of the
\* agent, "default_mode" alone in the rules of a tool and in the profile, and
\* a string as always_allow_tool_actions
C36_Witness ==
  /\ settings_file.phase = "done"
  /\ At(Object(settings_file.obj), <<"agent", "tool_permissions", "default">>) = Str("deny")
  /\ At(Object(settings_file.obj), <<"agent", "tool_permissions", "default_mode">>) = Str("confirm")
  /\ At(Object(settings_file.obj), <<"agent", "tool_permissions", "tools", "terminal", "default">>) = Missing
  /\ At(Object(settings_file.migrated), <<"agent", "tool_permissions", "tools", "terminal", "default">>) = Str("confirm")
  /\ At(Object(settings_file.migrated), <<"agent", "profiles", "write", "tool_permissions", "default">>) = Str("confirm")
  /\ At(Object(settings_file.migrated), <<"agent", "always_allow_tool_actions">>) = Str("yes")

\* C37: migrate_one applied to a file it has migrated gives that file.
C37_Idempotent ==
  settings_file.phase = "again" => settings_file.again = settings_file.migrated

\* the migration changed the file, with always_allow_tool_actions true and a
\* "default_mode" to rename, and was run again
C37_Witness ==
  /\ settings_file.phase = "again"
  /\ settings_file.migrated # settings_file.obj
  /\ At(Object(settings_file.obj), <<"agent", "always_allow_tool_actions">>) = Bool(TRUE)
  /\ At(Object(settings_file.obj), <<"agent", "tool_permissions", "default_mode">>) = Str("confirm")
  /\ At(Object(settings_file.obj), <<"agent", "tool_permissions", "default">>) = Str("deny")
  /\ At(Object(settings_file.migrated), <<"agent_servers", "claude", "default_mode">>) = Str("bypassPermissions")

(***************************************************************************)
(* The toggle of the audio test (specification SpecAudio).                 *)
(***************************************************************************)
\* the window is testing
Testing == audio_test_window.stop_playback.some

\* the playbacks whose handle exists
Handles == {i \in DOMAIN playbacks : playbacks[i].handle}

\* what holds of the handle in every state: the window holds the only
\* handle there is, the stop signal of its playback is not set, that of a
\* playback whose handle was dropped is set, and a closed window holds none
HandleInWindow ==
  /\ Handles = IF Testing THEN {audio_test_window.stop_playback.val} ELSE {}
  /\ \A i \in DOMAIN playbacks :
       /\ playbacks[i].handle => ~playbacks[i].stop_signal
       /\ (~playbacks[i].handle /\ playbacks[i].output # "unspawned") => playbacks[i].stop_signal
  /\ ~audio_test_window.open => ~Testing

\* what holds of every step: from testing no playback is started and the
\* window stays testing or stops; testing is entered only with a playback
\* just started whose two threads were spawned; and a stop signal is set
\* only as the window gives up its handle
ToggleStep ==
  /\ Testing =>
       /\ Len(playbacks') = Len(playbacks)
       /\ audio_test_window'.stop_playback \in {audio_test_window.stop_playback, None}
  /\ (~Testing /\ audio_test_window'.stop_playback.some) =>
       /\ Len(playbacks') = Len(playbacks) + 1
       /\ audio_test_window'.stop_playback.val = Len(playbacks')
       /\ playbacks'[Len(playbacks')].input = "open"
       /\ playbacks'[Len(playbacks')].output = "open"
  /\ (~Testing /\ Len(playbacks') > Len(playbacks) /\ playbacks'[Len(playbacks')].output = "unspawned") =>
       ~audio_test_window'.stop_playback.some
  /\ \A i \in DOMAIN playbacks :
       (~playbacks[i].stop_signal /\ playbacks'[i].stop_signal) =>
         /\ audio_test_window.stop_playback = Some(i)
         /\ ~audio_test_window'.stop_playback.some

\* C38: the window holds at most one handle, the only one there is; a
\* toggle while testing stops the playback, setting its stop signal, and
\* starts none; a toggle while not testing makes the window testing only
\* when start_test_playback returned a handle, with both threads spawned;
\* and a window that is dropped holds no handle, the stop signal set.
C38_ToggleStartsOrStops == []HandleInWindow /\ [][ToggleStep]_vars

\* a second playback runs in the window after the first was stopped
C38_Witness ==
  /\ Len(playbacks) = 2
  /\ playbacks[1].stop_signal
  /\ playbacks[1].output # "unspawned"
  /\ audio_test_window.stop_playback = Some(2)
  /\ playbacks[2].handle
  /\ ~playbacks[2].stop_signal

(***************************************************************************)
(* The end of the two threads (specification SpecAudioLive).               *)
(***************************************************************************)
\* C39: once the stop signal of a playback is set, its input thread and its
\* output thread return.
C39_ThreadsTerminate ==
  \A i \in 1 .. MaxPlaybacks :
    (i \in DOMAIN playbacks /\ playbacks[i].stop_signal) ~>
      (i \in DOMAIN playbacks /\ playbacks[i].input = "done" /\ playbacks[i].output = "done")

(***************************************************************************)
(* The four cases of deserialize_json_output (specification SpecDocker).   *)
(***************************************************************************)
\* the stdout is a DockerPs: an object with one field "ID", a string, and
\* any other fields
IsDockerPs(stdout) ==
  LET json == SelectSeq(stdout, LAMBDA token : token # " ")
      keys == {k \in 1 .. Len(json) : k % 4 = 2 /\ k < Len(json)}
  IN  /\ Len(json) >= 5
      /\ Len(json) % 4 = 1
      /\ json[1] = "{"
      /\ json[Len(json)] = "}"
      /\ \A k \in keys :
           /\ json[k] \in {"ID", "x"}
           /\ json[k + 1] = ":"
           /\ json[k + 2] \in {"abdb", "null"}
           /\ k + 3 < Len(json) => json[k + 3] = ","
      /\ Cardinality({k \in keys : json[k] = "ID"}) = 1
      /\ \A k \in keys : json[k] = "ID" => json[k + 2] = "abdb"

UnmappedError == [ok |-> FALSE, err |-> "UnmappedError"]

\* C40: a command that failed gives Err(UnmappedError) whatever its stdout;
\* one that succeeded gives Ok(None) for an empty stdout, Ok(Some(value))
\* for a stdout that is a DockerPs, other fields ignored, and
\* Err(UnmappedError) for any other stdout that is not empty.
C40_FourCases ==
  docker_output.phase = "done" =>
    LET output == docker_output.output
        result == docker_output.result
    IN  /\ ~output.success => result = UnmappedError
        /\ (output.success /\ output.stdout = <<>>) => result = [ok |-> TRUE, val |-> None]
        /\ (output.success /\ IsDockerPs(output.stdout)) =>
             result = [ok |-> TRUE, val |-> Some("abdb")]
        /\ (output.success /\ output.stdout # <<>> /\ ~IsDockerPs(output.stdout)) =>
             result = UnmappedError

=============================================================================
